---- MODULE Spec2Model ----
(***************************************************************************)
(* Model of the bull-piano-nft sentiment engine:                           *)
(*   src/netlify/functions/market-sentiment.js  (single collection)        *)
(*   src/api/nft-image.js                       (image redirect)           *)
(*   src/server/routes.ts                       (Express server, cached    *)
(*                                               reader, market-wide)      *)
(*   src/api/refresh-sentiment.js               (scheduled refresh)        *)
(*                                                                         *)
(* Numbers.  JavaScript numbers are modelled in fixed point.  A finite     *)
(* number is Fin(v) with v counted in thousandths (Unit); the weighted     *)
(* score is counted in hundred-thousandths (ScoreUnit).  NaN and the two   *)
(* infinities are values of their own, with the IEEE rules the code relies *)
(* on (0/0 = NaN, x/0 = Infinity, comparisons with NaN are false,          *)
(* Math.max/Math.min propagate NaN).  Time is counted in hours.            *)
(***************************************************************************)
EXTENDS Integers, Sequences, FiniteSets, TLC

VARIABLES
    phase,      \* calculator / classifier harness: "input" | "computed"
    floorData,  \* argument of calculateMarketSentiment: Null or a floor price
    salesData,  \* argument of calculateMarketSentiment: Null or a list of sales
    variant,    \* which copy of calculateMarketSentiment is applied
    calcNow,    \* the value Date.now() returns inside the computation
    result,     \* the value calculateMarketSentiment returned (or Null)
    scoreA,     \* two scores handed to the threshold classification ...
    scoreB,
    stateA,     \* ... and the states it returned for them
    stateB,
    server,     \* the module whose handlers run: "express" | "netlify" | "vercel"
    apiKey,     \* process.env.ALCHEMY_API_KEY is set
    now,        \* Date.now(), in hours
    cache,      \* the module's cache Map: key -> Null or {data, timestamp}
    req,        \* per request slot: idle, or awaiting its two fetches
    lastResp,   \* the response sent last, with what its request did
    mw,         \* market-wide handler: its position and local variables
    mwAnswered, \* a market-wide request has been answered with a result
    mwResp,     \* the response of the market-wide request (none until sent)
    rf,         \* refresh handler: its position, its local variables, the
                \* collections whose fetch failed and the invocations so far
    cronSecret, \* the CRON_SECRET of the environment ("none" when unset)
    store,      \* the snapshot in the blob store (Null when there is none)
    rfResp,     \* the response of the refresh request (none until sent)
    rdResp      \* the response of the cached read sent last (none until sent)

calcVars == <<phase, floorData, salesData, variant, calcNow, result,
              scoreA, scoreB, stateA, stateB>>

srvVars == <<server, apiKey, now, cache, req, lastResp>>

mwVars == <<mw, mwAnswered, mwResp>>

rfVars == <<rf, cronSecret, store, rfResp, rdResp>>

vars == <<calcVars, srvVars, mwVars, rfVars>>

\* null / undefined
Null == [null |-> TRUE]

----------------------------------------------------------------------------
(* Bounds of the model *)

\* decimal digits of the smallest currency unit (18 in the source: wei);
\* TLC integers are 32 bit, so fee amounts are counted in a coarser unit
WeiDigits == 1
\* number of equidistant scores handed to the classification
GridPoints == 50
\* number of clock ticks (of half a cache duration each)
MaxTicks == 3

\* invocations of the scheduled refresh in one behaviour
MaxRuns == 1
MaxReadTicks == 8
MaxSales == 2

----------------------------------------------------------------------------
(* Fixed point numbers with NaN and infinities *)

\* one, counted in thousandths / in hundred-thousandths
Unit == 10 ^ 3
ScoreUnit == 10 ^ 5

Fin(v) == [k |-> "fin", v |-> v]
NaN == [k |-> "nan", v |-> 0]
PosInf == [k |-> "inf", v |-> 1]
NegInf == [k |-> "inf", v |-> -1]

IsFinite(x) == x.k = "fin"
IsNaN(x) == x.k = "nan"

\* a / b for finite a, b counted in the same unit; the quotient in Unit
JsDiv(a, b) ==
    IF b # 0 THEN Fin((a * Unit) \div b)
    ELSE IF a = 0 THEN NaN
    ELSE IF a > 0 THEN PosInf ELSE NegInf

\* 1 - x
JsOneMinus(x) ==
    CASE x.k = "nan" -> NaN
      [] x.k = "inf" -> IF x.v > 0 THEN NegInf ELSE PosInf
      [] OTHER -> Fin(Unit - x.v)

\* Math.max(x, c) for a finite c
JsMax(x, c) ==
    CASE x.k = "nan" -> NaN
      [] x.k = "inf" -> IF x.v > 0 THEN PosInf ELSE Fin(c)
      [] OTHER -> Fin(IF x.v > c THEN x.v ELSE c)

\* Math.min(x, c) for a finite c
JsMin(x, c) ==
    CASE x.k = "nan" -> NaN
      [] x.k = "inf" -> IF x.v > 0 THEN Fin(c) ELSE NegInf
      [] OTHER -> Fin(IF x.v < c THEN x.v ELSE c)

\* x < c for a finite c (false when x is NaN)
JsLess(x, c) ==
    CASE x.k = "nan" -> FALSE
      [] x.k = "inf" -> x.v < 0
      [] OTHER -> x.v < c

\* acc + x * w, acc and the sum in ScoreUnit, x in Unit, w in hundredths
JsAddWeighted(acc, x, w) ==
    CASE acc.k = "nan" \/ x.k = "nan" -> NaN
      [] acc.k = "inf" /\ x.k = "inf" -> IF acc.v = x.v THEN acc ELSE NaN
      [] acc.k = "inf" -> acc
      [] x.k = "inf" -> x
      [] OTHER -> Fin(acc.v + x.v * w)

RECURSIVE SqrtBetween(_, _, _)
SqrtBetween(n, lo, hi) ==
    IF lo >= hi THEN lo
    ELSE LET mid == (lo + hi + 1) \div 2
         IN  IF mid * mid <= n THEN SqrtBetween(n, mid, hi)
                               ELSE SqrtBetween(n, lo, mid - 1)

\* Math.sqrt of a non-negative integer, rounded down
JsSqrt(n) == SqrtBetween(n, 0, 46340)

RECURSIVE SumSeq(_)
SumSeq(s) == IF s = <<>> THEN 0 ELSE Head(s) + SumSeq(Tail(s))

RECURSIVE MapSq(_, _)
MapSq(s, mean) ==
    IF s = <<>> THEN <<>>
    ELSE <<(Head(s) - mean) * (Head(s) - mean)>> \o MapSq(Tail(s), mean)

----------------------------------------------------------------------------
(* calculateMarketSentiment, in its three copies *)

Variants == {"netlify", "vercel", "express"}

States == {"capitulation", "stagnation", "resilience", "euphoria"}

\* 1 ETH = 10^18 wei (Math.pow(10, 18)), scaled to the model's fee unit
WeiPerEth == 10 ^ WeiDigits

\* every copy looks back 30 days
RefDays30(v) == 30

\* length of the reference window in days: 30 (serverless copies), 7 (Express)
RefDays(v) == IF v = "express" THEN 7 ELSE 30

\* currentFloorPrice: the floor price of the response, or 0 without one
FloorPriceOf(fd) == IF fd = Null THEN 0 ELSE fd.floorPrice

\* sales: salesData?.nftSales || []
SalesOf(sd) == IF sd = Null THEN <<>> ELSE sd.nftSales

\* the price of one sale as the copy computes it, in Unit: the serverless
\* copies add the three fees and divide by 10^18, the Express copy takes
\* parseFloat(sale.sellerFee?.amount) as it is
SalePrice(v, sale) ==
    IF v = "express"
    THEN sale.sellerFee * Unit
    ELSE ((sale.sellerFee + sale.protocolFee + sale.royaltyFee) * Unit) \div WeiPerEth

RECURSIVE SalesAfter(_, _)
\* sales.filter(sale => new Date(sale.blockTimestamp).getTime() > cutoff)
SalesAfter(sales, cutoff) ==
    IF sales = <<>> THEN <<>>
    ELSE IF Head(sales).blockTimestamp > cutoff
         THEN <<Head(sales)>> \o SalesAfter(Tail(sales), cutoff)
         ELSE SalesAfter(Tail(sales), cutoff)

RECURSIVE Prices(_, _)
Prices(v, sales) ==
    IF sales = <<>> THEN <<>>
    ELSE <<SalePrice(v, Head(sales))>> \o Prices(v, Tail(sales))

getStandardDeviation(values) ==
    IF Len(values) = 0 THEN 0
    ELSE LET mean == SumSeq(values) \div Len(values)
             variance == SumSeq(MapSq(values, mean)) \div Len(values)
         IN  JsSqrt(variance)

\* sales_volume_ratio: volume24h / (volumeRef / days) * 0.5, capped at 1
SalesVolumeRatio(volume24h, volumeRef, days) ==
    IF volumeRef > 0
    THEN JsMin(Fin((volume24h * days * Unit) \div (2 * volumeRef)), Unit)
    ELSE Fin(0)

\* price_volatility
PriceVolatility(prices24h, floor) ==
    IF Len(prices24h) > 0
    THEN JsMax(JsOneMinus(JsDiv(getStandardDeviation(prices24h), floor)), 0)
    ELSE Fin(Unit \div 2)

Indicators(v, fd, sd, t) ==
    LET floor == FloorPriceOf(fd)
        sales == SalesOf(sd)
        sales24h == SalesAfter(sales, t - 24)
        salesRef == SalesAfter(sales, t - RefDays(v) * 24)
        volume24h == SumSeq(Prices(v, sales24h))
        volumeRef == SumSeq(Prices(v, salesRef))
    IN  [floor_price_trend |-> JsMin(JsMax(Fin(floor \div 2), 0), Unit),
         sales_volume_ratio |-> SalesVolumeRatio(volume24h, volumeRef, RefDays(v)),
         active_traders |-> JsMin(Fin((Len(sales24h) * Unit) \div 50), Unit),
         price_volatility |-> PriceVolatility(Prices(v, sales24h), floor),
         market_cap_change |-> JsMin(Fin((floor * Len(sales24h)) \div 1000), Unit)]

IndicatorNames == {"floor_price_trend", "sales_volume_ratio", "active_traders",
                   "price_volatility", "market_cap_change"}

\* weights, in hundredths
weights == [floor_price_trend |-> 25, sales_volume_ratio |-> 25,
            active_traders |-> 20, price_volatility |-> 15,
            market_cap_change |-> 15]

\* Object.entries(indicators).reduce(...), in insertion order; in ScoreUnit
WeightedScore(ind) ==
    LET s1 == JsAddWeighted(Fin(0), ind.floor_price_trend, weights.floor_price_trend)
        s2 == JsAddWeighted(s1, ind.sales_volume_ratio, weights.sales_volume_ratio)
        s3 == JsAddWeighted(s2, ind.active_traders, weights.active_traders)
        s4 == JsAddWeighted(s3, ind.price_volatility, weights.price_volatility)
    IN  JsAddWeighted(s4, ind.market_cap_change, weights.market_cap_change)

\* the thresholds with each boundary value left to the lower state
ClassifyScoreBoundaryLow(score) ==
    IF JsLess(score, 25 * (ScoreUnit \div 100) + 1) THEN "capitulation"
    ELSE IF JsLess(score, 50 * (ScoreUnit \div 100) + 1) THEN "stagnation"
    ELSE IF JsLess(score, 75 * (ScoreUnit \div 100) + 1) THEN "resilience"
    ELSE "euphoria"

\* the if / else-if chain on the score (a number in ScoreUnit, or NaN)
ClassifyScore(score) ==
    IF JsLess(score, 25 * (ScoreUnit \div 100)) THEN "capitulation"
    ELSE IF JsLess(score, 50 * (ScoreUnit \div 100)) THEN "stagnation"
    ELSE IF JsLess(score, 75 * (ScoreUnit \div 100)) THEN "resilience"
    ELSE "euphoria"

\* the digits after the given number of decimals are cut off
JsTruncTo(x, digits) ==
    LET q == ScoreUnit \div (10 ^ digits)
    IN  IF IsFinite(x) THEN Fin((x.v \div q) * q) ELSE x

\* Math.round(x * 10^digits) / 10^digits for x in ScoreUnit; Math.round is
\* floor(y + 0.5)
JsRoundTo(x, digits) ==
    LET q == ScoreUnit \div (10 ^ digits)
    IN  IF IsFinite(x) THEN Fin(((2 * x.v + q) \div (2 * q)) * q) ELSE x

RawData(v, fd, sd, t) ==
    LET sales24h == SalesAfter(SalesOf(sd), t - 24)
        salesRef == SalesAfter(SalesOf(sd), t - RefDays(v) * 24)
    IN  IF v = "vercel" THEN Null
        ELSE [floor_price |-> FloorPriceOf(fd),
              volume_24h |-> SumSeq(Prices(v, sales24h)),
              volume_ref |-> SumSeq(Prices(v, salesRef)),
              sales_count |-> Len(sales24h)]

calculateMarketSentiment(v, fd, sd, t) ==
    LET indicators == Indicators(v, fd, sd, t)
        sentiment_score == WeightedScore(indicators)
    IN  [sentiment_score |-> JsRoundTo(sentiment_score, 2),
         market_state |-> ClassifyScore(sentiment_score),
         indicators |-> indicators,
         raw_data |-> RawData(v, fd, sd, t)]

\* marketSentimentSchema.parse: z.number() rejects NaN, z.enum the rest
marketSentimentSchema(r) ==
    /\ ~IsNaN(r.sentiment_score)
    /\ r.market_state \in States
    /\ \A n \in IndicatorNames : ~IsNaN(r.indicators[n])
    /\ r.raw_data # Null

----------------------------------------------------------------------------
(* Inputs: what the upstream API can answer *)

\* floor prices of a getFloorPrice response, in Unit (0: no listing)
FloorSamples == {0, 1380, 2000, 5000, 1500000}

\* a sale of the given age in hours, fees in the model's fee unit
SaleAt(t, age, seller, protocol, royalty) ==
    [blockTimestamp |-> t - age, sellerFee |-> seller,
     protocolFee |-> protocol, royaltyFee |-> royalty]

\* nftSales lists of a getNftSales response received at time t
SalesSamples(t) ==
    { <<>>,
      <<SaleAt(t, 1, 10, 0, 0)>>,
      <<SaleAt(t, 1, 18, 1, 1), SaleAt(t, 2, 10, 0, 0)>>,
      <<SaleAt(t, 1, 10, 0, 0), SaleAt(t, 3, 10, 0, 0)>>,
      <<SaleAt(t, 1, 18, 1, 1), SaleAt(t, 2, 9, 1, 0),
        SaleAt(t, 100, 20, 0, 0)>>,
      <<SaleAt(t, 24, 10, 0, 0)>>,
      <<SaleAt(t, 2, 5, 0, 0), SaleAt(t, 200, 20, 2, 2)>>,
      <<SaleAt(t, 800, 10, 0, 0)>>,
      <<SaleAt(t, 1, 0, 0, 0)>>,
      <<SaleAt(t, 1, 30, 0, 0), SaleAt(t, 200, 870, 0, 0)>> }

\* the parsed body of a response, or null when the fetch gave none
FloorInputs == {[floorPrice |-> f] : f \in FloorSamples} \cup {Null}
SalesInputs(t) == {[nftSales |-> l] : l \in SalesSamples(t)} \cup {Null}

\* values of Date.now(), in hours
NowSamples == {0, 30}

----------------------------------------------------------------------------
(* The single-collection handlers and their cache *)

\* 12 * 60 * 60 * 1000 ms, in hours
CACHE_DURATION == 12

TickHours == CACHE_DURATION \div 2

ASSET_URLS == [capitulation |-> "arweave/capitulation",
               stagnation |-> "arweave/stagnation",
               resilience |-> "arweave/resilience",
               euphoria |-> "arweave/euphoria"]

\* property names an object literal inherits from Object.prototype (one of
\* them stands for all)
PrototypeKeys == {"toString"}

\* key in ASSET_URLS: the in operator also finds inherited properties
InAssetUrls(key) == key \in DOMAIN ASSET_URLS \cup PrototypeKeys

\* ASSET_URLS[key] as it is written into the Location header: for an inherited
\* property the text of the function
AssetUrlAt(key) ==
    IF key \in DOMAIN ASSET_URLS THEN ASSET_URLS[key]
    ELSE "function toString() { [native code] }"

Servers == {"express", "netlify", "vercel"}

\* the routes a module serves: "ms" is /api/market-sentiment, "img" is
\* /api/nft-image; the two Express routes share the module's cache
Routes(srv) ==
    CASE srv = "express" -> {"ms", "img"}
      [] srv = "netlify" -> {"ms"}
      [] srv = "vercel" -> {"img"}

Contracts == {"0xA", "0xB"}
\* the default contract of the image route (BAYC)
DefaultContract == "0xA"
NoParam == "none"

ContractParams == Contracts \cup {NoParam}
ForceParams == {NoParam, "bogus", "toString"} \cup States

AllSlots == {1, 2}

\* age of an entry at the cache check: Absent without an entry, NotChecked
\* when the request did not come to the check
Absent == 0 - 1
NotChecked == 0 - 2
AgeOf(entry, t) == IF entry = Null THEN Absent ELSE t - entry.timestamp

\* fetchedAt is the hour at which the upstream answered the fetches of the
\* request, NotChecked as long as the handler has not been told
Idle ==
    [pc |-> "idle", route |-> "none", contract |-> "none", age |-> NotChecked,
     fetchedAt |-> NotChecked]

\* what one upstream fetch can come to: a rejected promise (network error),
\* a response that is not ok, an ok response whose body json() cannot
\* parse, an ok response with a body
Outcome(kind, body) == [kind |-> kind, body |-> body]

FloorOutcomes ==
    {Outcome("rejected", Null), Outcome("nonok", Null), Outcome("badjson", Null),
     Outcome("ok", [floorPrice |-> 1500000])}

\* the sales of an ok response are one hour old when it is received
SalesOutcomes ==
    {Outcome("rejected", Null), Outcome("nonok", Null), Outcome("badjson", Null),
     Outcome("ok", [nftSales |-> <<>>]),
     Outcome("ok", [nftSales |-> <<SaleAt(0, 1, 10, 0, 0)>>])}

RECURSIVE ReceivedAt(_, _)
ReceivedAt(sales, t) ==
    IF sales = <<>> THEN <<>>
    ELSE <<[Head(sales) EXCEPT !.blockTimestamp = @ + t]>>
             \o ReceivedAt(Tail(sales), t)

\* the body of a sales response received at time t
SalesBodyAt(o, t) ==
    IF o.kind = "ok" THEN [nftSales |-> ReceivedAt(o.body.nftSales, t)] ELSE Null

\* floorData / salesData after the two "fulfilled && ok" tests
BodyOf(o) == IF o.kind = "ok" THEN o.body ELSE Null

\* the fetch gave no data
Failed(o) == o.kind \in {"rejected", "nonok"}

cacheKey(contract) == contract

\* the test with <= in place of <
CacheFreshInclusive(entry, t) ==
    entry # Null /\ t - entry.timestamp <= CACHE_DURATION

\* cached && (Date.now() - cached.timestamp < CACHE_DURATION)
CacheFresh(entry, t) == entry # Null /\ t - entry.timestamp < CACHE_DURATION

\* the entry is written only when the key has none
cacheSetIfAbsent(c, key, data, t) ==
    IF c[key] = Null THEN [c EXCEPT ![key] = [data |-> data, timestamp |-> t]]
    ELSE c

\* the data of the entry is changed, its timestamp kept
cacheSetDataOnly(c, key, data, t) ==
    IF c[key] = Null THEN [c EXCEPT ![key] = [data |-> data, timestamp |-> t]]
    ELSE [c EXCEPT ![key].data = data]

\* cache.set(cacheKey, { data, timestamp: Date.now() })
cacheSet(c, key, data, t) ==
    [c EXCEPT ![key] = [data |-> data, timestamp |-> t]]

\* what the two fetches of a request came to, as far as the handler tells
\* them apart: "failed" (neither gave data), "threw" (json() threw), "data"
UpstreamOf(fo, so) ==
    IF fo.kind = "badjson" \/ so.kind = "badjson" THEN "threw"
    ELSE IF Failed(fo) /\ Failed(so) THEN "failed"
    ELSE "data"

\* a response, with what its request did: age is the age of the entry it
\* found at the cache check, fetches counts the upstream calls it issued,
\* upstream tells what they came to ("none" without a call)
Response(r, route, contract, status, kind, data, location, fromCache, age, fetches, upstream, lag) ==
    [slot |-> r, route |-> route, contract |-> contract,
     status |-> status, kind |-> kind, data |-> data, location |-> location,
     fromCache |-> fromCache, age |-> age, fetches |-> fetches,
     upstream |-> upstream, lag |-> lag]

NoResponse ==
    [slot |-> 0, route |-> "none", contract |-> "none",
     status |-> 0, kind |-> "none", data |-> Null, location |-> "none",
     fromCache |-> FALSE, age |-> NotChecked, fetches |-> 0,
     upstream |-> "none", lag |-> 0]

\* a response sent before any fetch was started
Immediate(r, route, contract, status, kind, data, location, fromCache, age) ==
    Response(r, route, contract, status, kind, data, location, fromCache, age,
             0, "none", 0)

\* the hour at which the upstream answered request r: the hour the handler
\* was told, or else the hour at which it goes on
ReceivedAtHour(r) ==
    IF req[r].fetchedAt = NotChecked THEN now ELSE req[r].fetchedAt

SrvInit ==
    /\ server \in Servers
    /\ apiKey \in BOOLEAN
    /\ now = 0
    /\ cache = [k \in Contracts |-> Null]
    /\ req = [r \in AllSlots |-> Idle]
    /\ lastResp = NoResponse

\* GET /api/market-sentiment up to its first await
\* (routes.ts 54-94, market-sentiment.js 48-90)
MarketSentimentStart(r, contract) ==
    /\ "ms" \in Routes(server)
    /\ req[r].pc = "idle"
    /\ IF ~apiKey
       THEN /\ lastResp' = Immediate(r, "ms", contract, 500, "error", Null, "none", FALSE,
                                     NotChecked)
            /\ UNCHANGED req
       ELSE IF contract = NoParam
       THEN /\ lastResp' = Immediate(r, "ms", contract, 400, "error", Null, "none", FALSE,
                                     NotChecked)
            /\ UNCHANGED req
       ELSE IF CacheFresh(cache[cacheKey(contract)], now)
       THEN /\ lastResp' = Immediate(r, "ms", contract, 200, "data",
                                     cache[cacheKey(contract)].data, "none", TRUE,
                                     AgeOf(cache[cacheKey(contract)], now))
            /\ UNCHANGED req
       ELSE /\ req' = [req EXCEPT ![r] =
                         [pc |-> "await", route |-> "ms", contract |-> contract,
                          age |-> AgeOf(cache[cacheKey(contract)], now),
                          fetchedAt |-> NotChecked]]
            /\ UNCHANGED lastResp
    /\ UNCHANGED <<server, apiKey, now, cache>>
    /\ UNCHANGED <<calcVars, mwVars, rfVars>>

\* the result is cached before it is validated
MarketSentimentFinishCacheFirst(r, fo, so) ==
    /\ req[r].pc = "await" /\ req[r].route = "ms"
    /\ LET contract == req[r].contract
           sentimentAnalysis ==
               calculateMarketSentiment(server, BodyOf(fo),
                   SalesBodyAt(so, ReceivedAtHour(r)), now)
       IN  IF fo.kind = "badjson" \/ so.kind = "badjson"
           THEN /\ lastResp' = Response(r, "ms", contract, 500, "error", Null,
                                        "none", FALSE, req[r].age, 2, UpstreamOf(fo, so), now - ReceivedAtHour(r))
                /\ UNCHANGED cache
           ELSE /\ cache' = cacheSet(cache, cacheKey(contract), sentimentAnalysis, now)
                /\ lastResp' =
                       IF ~marketSentimentSchema(sentimentAnalysis)
                       THEN Response(r, "ms", contract, 500, "error", Null,
                                     "none", FALSE, req[r].age, 2, UpstreamOf(fo, so), now - ReceivedAtHour(r))
                       ELSE Response(r, "ms", contract, 200, "data",
                                     sentimentAnalysis, "none", FALSE, req[r].age, 2,
                                     UpstreamOf(fo, so), now - ReceivedAtHour(r))
    /\ req' = [req EXCEPT ![r] = Idle]
    /\ UNCHANGED <<server, apiKey, now>>
    /\ UNCHANGED <<calcVars, mwVars, rfVars>>

\* GET /api/market-sentiment from Promise.allSettled to the response
\* (routes.ts 96-135, market-sentiment.js 92-134)
MarketSentimentFinish(r, fo, so) ==
    /\ req[r].pc = "await" /\ req[r].route = "ms"
    /\ LET contract == req[r].contract
           sentimentAnalysis ==
               calculateMarketSentiment(server, BodyOf(fo),
                   SalesBodyAt(so, ReceivedAtHour(r)), now)
       IN  IF fo.kind = "badjson" \/ so.kind = "badjson"
           THEN \* json() throws: the outer catch
                /\ lastResp' = Response(r, "ms", contract, 500, "error", Null,
                                        "none", FALSE, req[r].age, 2, UpstreamOf(fo, so), now - ReceivedAtHour(r))
                /\ UNCHANGED cache
           ELSE IF ~marketSentimentSchema(sentimentAnalysis)
           THEN /\ lastResp' = Response(r, "ms", contract, 500, "error", Null,
                                        "none", FALSE, req[r].age, 2, UpstreamOf(fo, so), now - ReceivedAtHour(r))
                /\ UNCHANGED cache
           ELSE /\ cache' = cacheSet(cache, cacheKey(contract), sentimentAnalysis, now)
                /\ lastResp' = Response(r, "ms", contract, 200, "data",
                                        sentimentAnalysis, "none", FALSE, req[r].age, 2,
                                        UpstreamOf(fo, so), now - ReceivedAtHour(r))
    /\ req' = [req EXCEPT ![r] = Idle]
    /\ UNCHANGED <<server, apiKey, now>>
    /\ UNCHANGED <<calcVars, mwVars, rfVars>>

\* ASSET_URLS[sentimentData.market_state] || ASSET_URLS.stagnation
ImageUrl(sentimentData) ==
    IF sentimentData.market_state \in DOMAIN ASSET_URLS
    THEN ASSET_URLS[sentimentData.market_state]
    ELSE ASSET_URLS.stagnation

\* the override is looked at after the key and the cache
NftImageStartOverrideLast(r, contractParam, forceState) ==
    /\ "img" \in Routes(server)
    /\ req[r].pc = "idle"
    /\ LET contract == IF contractParam = NoParam THEN DefaultContract
                       ELSE contractParam
       IN  IF ~apiKey
           THEN /\ lastResp' = Immediate(r, "img", contract, 302, "redirect", Null,
                                         ASSET_URLS.stagnation, FALSE, NotChecked)
                /\ UNCHANGED req
           ELSE IF CacheFresh(cache[cacheKey(contract)], now)
           THEN /\ lastResp' = Immediate(r, "img", contract, 302, "redirect",
                                         cache[cacheKey(contract)].data,
                                         ImageUrl(cache[cacheKey(contract)].data),
                                         TRUE,
                                         AgeOf(cache[cacheKey(contract)], now))
                /\ UNCHANGED req
           ELSE IF forceState # NoParam /\ InAssetUrls(forceState)
           THEN /\ lastResp' = Immediate(r, "img", contract, 302, "redirect", Null,
                                         AssetUrlAt(forceState), FALSE, NotChecked)
                /\ UNCHANGED req
           ELSE /\ req' = [req EXCEPT ![r] =
                             [pc |-> "await", route |-> "img", contract |-> contract,
                              age |-> AgeOf(cache[cacheKey(contract)], now),
                              fetchedAt |-> NotChecked]]
                /\ UNCHANGED lastResp
    /\ UNCHANGED <<server, apiKey, now, cache>>
    /\ UNCHANGED <<calcVars, mwVars, rfVars>>

\* GET /api/nft-image up to its first await
\* (routes.ts 227-263, nft-image.js 33-69)
NftImageStart(r, contractParam, forceState) ==
    /\ "img" \in Routes(server)
    /\ req[r].pc = "idle"
    /\ LET contract == IF contractParam = NoParam THEN DefaultContract
                       ELSE contractParam
       IN  IF forceState # NoParam /\ InAssetUrls(forceState)
           THEN /\ lastResp' = Immediate(r, "img", contract, 302, "redirect", Null,
                                         AssetUrlAt(forceState), FALSE, NotChecked)
                /\ UNCHANGED req
           ELSE IF ~apiKey
           THEN /\ lastResp' = Immediate(r, "img", contract, 302, "redirect", Null,
                                         ASSET_URLS.stagnation, FALSE, NotChecked)
                /\ UNCHANGED req
           ELSE IF CacheFresh(cache[cacheKey(contract)], now)
           THEN /\ lastResp' = Immediate(r, "img", contract, 302, "redirect",
                                         cache[cacheKey(contract)].data,
                                         ImageUrl(cache[cacheKey(contract)].data),
                                         TRUE,
                                         AgeOf(cache[cacheKey(contract)], now))
                /\ UNCHANGED req
           ELSE /\ req' = [req EXCEPT ![r] =
                             [pc |-> "await", route |-> "img", contract |-> contract,
                              age |-> AgeOf(cache[cacheKey(contract)], now),
                          fetchedAt |-> NotChecked]]
                /\ UNCHANGED lastResp
    /\ UNCHANGED <<server, apiKey, now, cache>>
    /\ UNCHANGED <<calcVars, mwVars, rfVars>>

\* GET /api/nft-image from Promise.allSettled to the redirect
\* (routes.ts 265-301, nft-image.js 71-109)
NftImageFinish(r, fo, so) ==
    /\ req[r].pc = "await" /\ req[r].route = "img"
    /\ LET contract == req[r].contract
           sentimentData ==
               calculateMarketSentiment(server, BodyOf(fo),
                   SalesBodyAt(so, ReceivedAtHour(r)), now)
       IN  IF fo.kind = "badjson" \/ so.kind = "badjson"
           THEN \* json() throws: the inner catch
                /\ lastResp' = Response(r, "img", contract, 302, "redirect", Null,
                                        ASSET_URLS.stagnation, FALSE, req[r].age, 2,
                                        UpstreamOf(fo, so), now - ReceivedAtHour(r))
                /\ UNCHANGED cache
           ELSE /\ cache' = cacheSet(cache, cacheKey(contract), sentimentData, now)
                /\ lastResp' = Response(r, "img", contract, 302, "redirect",
                                        sentimentData, ImageUrl(sentimentData),
                                        FALSE, req[r].age, 2, UpstreamOf(fo, so), now - ReceivedAtHour(r))
    /\ req' = [req EXCEPT ![r] = Idle]
    /\ UNCHANGED <<server, apiKey, now>>
    /\ UNCHANGED <<calcVars, mwVars, rfVars>>

\* the upstream answers the two fetches of request r; the handler goes on
\* (reads the bodies, computes, writes) in a later step
UpstreamAnswered(r) ==
    /\ req[r].pc = "await" /\ req[r].fetchedAt = NotChecked
    /\ req' = [req EXCEPT ![r].fetchedAt = now]
    /\ UNCHANGED <<server, apiKey, now, cache, lastResp>>
    /\ UNCHANGED <<calcVars, mwVars, rfVars>>

\* time passes
Tick ==
    /\ now < MaxTicks * TickHours
    /\ now' = now + TickHours
    /\ UNCHANGED <<server, apiKey, cache, req, lastResp>>
    /\ UNCHANGED <<calcVars, mwVars, rfVars>>

\* the harness of the computation does not move
CalcQuiet ==
    /\ phase = "off"
    /\ floorData = Null /\ salesData = Null /\ variant = "netlify"
    /\ calcNow = 0 /\ result = Null
    /\ scoreA = Fin(0) /\ scoreB = Fin(0)
    /\ stateA = "none" /\ stateB = "none"

SrvQuiet ==
    /\ server = "express" /\ apiKey = TRUE /\ now = 0
    /\ cache = [k \in Contracts |-> Null]
    /\ req = [r \in AllSlots |-> Idle]
    /\ lastResp = NoResponse

----------------------------------------------------------------------------
(* The market-wide handler (routes.ts 613-778) *)

\* the seven collections analysed, by their position in the list
collections == <<"BAYC", "CryptoPunks", "Azuki", "Moonbirds", "MAYC",
                 "Doodles", "CloneX">>

\* a fetch in flight: waiting for the response with the 5 s abort timer
\* armed, or (after clearTimeout) reading the body of an ok response
Pending == [phase |-> "response", timer |-> TRUE]
Reading == [phase |-> "body", timer |-> FALSE]
InFlight(x) == x \in {Pending, Reading}

\* a sale of the getNFTSales response: fee amounts, or a fee BigInt() rejects
MwSale(seller, protocol, royalty, valid) ==
    [sellerFee |-> seller, protocolFee |-> protocol, royaltyFee |-> royalty,
     valid |-> valid]

\* what the fetch of one collection can come to: a network error, the abort
\* after 5 s, a response that is not ok, a body json() cannot parse, a body
MwOutcomes ==
    {Outcome("rejected", Null), Outcome("timeout", Null),
     Outcome("nonok", Null), Outcome("badjson", Null),
     Outcome("ok", [nftSales |-> <<>>]),
     Outcome("ok", [nftSales |-> <<MwSale(9000, 500, 500, TRUE),
                                   MwSale(0, 0, 0, FALSE)>>])}

RECURSIVE MwVolume(_)
\* sales.forEach: volume += Number(totalWei) / 1e18, a sale whose fees
\* BigInt() rejects is skipped; in Unit
MwVolume(sales) ==
    IF sales = <<>> THEN 0
    ELSE (IF Head(sales).valid
          THEN ((Head(sales).sellerFee + Head(sales).protocolFee
                    + Head(sales).royaltyFee) * Unit) \div WeiPerEth
          ELSE 0) + MwVolume(Tail(sales))

\* the value one fetch promise is fulfilled with; contract is the collection
\* the promise was created for
FetchResult(contract, o) ==
    IF o.kind = "ok"
    THEN [contract |-> contract, volume |-> MwVolume(o.body.nftSales),
          sales |-> Len(o.body.nftSales)]
    ELSE [contract |-> contract, volume |-> 0, sales |-> 0]

\* Promise.allSettled: the result of promise i is element i
SettleAt(results, i, value) == [results EXCEPT ![i] = value]

RECURSIVE SumField(_, _)
SumField(results, field) ==
    IF results = <<>> THEN 0
    ELSE Head(results)[field] + SumField(Tail(results), field)

RECURSIVE CountActive(_)
\* if (sales > 0) activeCollections++
CountActive(results) ==
    IF results = <<>> THEN 0
    ELSE (IF Head(results).sales > 0 THEN 1 ELSE 0) + CountActive(Tail(results))

\* the market state by the ETH volume thresholds; volume in Unit
VolumeState(totalVolume) ==
    IF totalVolume < 2000 * Unit THEN "capitulation"
    ELSE IF totalVolume < 4000 * Unit THEN "stagnation"
    ELSE IF totalVolume < 7000 * Unit THEN "resilience"
    ELSE "euphoria"

Min(a, b) == IF a < b THEN a ELSE b

\* the response built from the settled results (routes.ts 704-753)
MarketWideResponse(results) ==
    LET totalVolume == SumField(results, "volume")
        totalSales == SumField(results, "sales")
        activeCollections == CountActive(results)
        indicators ==
            [total_volume_24h |-> Min(totalVolume \div 10000, Unit),
             volume_trend_ratio |-> Unit,
             active_collections |-> (activeCollections * Unit) \div Len(collections),
             total_sales_count |-> Min((totalSales * Unit) \div 1000, Unit),
             market_activity_score |->
                 Min((totalVolume * totalSales) \div 100000, Unit)]
        sentiment_score ==
            Fin(indicators.total_volume_24h * 40
                + indicators.active_collections * 30
                + indicators.total_sales_count * 20
                + indicators.market_activity_score * 10)
    IN  [status |-> 200, kind |-> "data",
         sentiment_score |-> JsRoundTo(sentiment_score, 3),
         market_state |-> VolumeState(totalVolume),
         indicators |-> indicators,
         raw_data |-> [collections_analyzed |-> Len(collections),
                       total_volume_eth |-> ((totalVolume + 5) \div 10) * 10,
                       total_sales |-> totalSales,
                       average_sale_price |->
                           IF totalSales > 0
                           THEN (2 * totalVolume + totalSales) \div (2 * totalSales)
                           ELSE 0,
                       active_collections |-> activeCollections],
         results |-> results]

MwError(status) ==
    [status |-> status, kind |-> "error", sentiment_score |-> NaN,
     market_state |-> "none", indicators |-> Null, raw_data |-> Null,
     results |-> <<>>]

MwNoResponse ==
    [status |-> 0, kind |-> "none", sentiment_score |-> NaN,
     market_state |-> "none", indicators |-> Null, raw_data |-> Null,
     results |-> <<>>]

\* failed: the collections whose fetch failed in the round
MwIdle == [pc |-> "idle", results |-> <<>>, calls |-> 0, failed |-> {}]

MwInit ==
    /\ mw = MwIdle
    /\ mwAnswered = FALSE
    /\ mwResp = MwNoResponse

MwQuiet == MwInit

\* only the fetch of the first collection is started
fetchFirstOnly == [i \in {1} |-> Pending]

\* collections.map(async ...): every fetch is started in the one pass
fetchPromises == [i \in DOMAIN collections |-> Pending]

\* GET /api/market-sentiment of the market-wide function: the method and key
\* checks, then one fetch per collection, all started before the first wait
MarketWideStart(method) ==
    /\ mw.pc = "idle"
    /\ IF method = "OPTIONS"
       THEN /\ mwResp' = [MwNoResponse EXCEPT !.status = 200, !.kind = "empty"]
            /\ mw' = MwIdle
       ELSE IF method # "GET"
       THEN /\ mwResp' = MwError(405)
            /\ mw' = MwIdle
       ELSE IF ~apiKey
       THEN /\ mwResp' = MwError(500)
            /\ mw' = MwIdle
       ELSE /\ mwResp' = MwNoResponse
            /\ mw' = [pc |-> "await",
                      results |-> fetchPromises,
                      calls |-> Len(fetchPromises), failed |-> {}]
    /\ UNCHANGED <<mwAnswered, calcVars, srvVars, rfVars>>

\* the ok response of collection i arrives: clearTimeout, then json()
MarketWideHeaders(i) ==
    /\ mw.pc = "await"
    /\ mw.results[i] = Pending
    /\ mw' = [mw EXCEPT !.results[i] = Reading]
    /\ UNCHANGED <<mwAnswered, mwResp, calcVars, srvVars, rfVars>>

\* the promise of collection i is fulfilled, in any order: without a
\* response, with a response that is not ok, or after the body was read
MarketWideSettle(i, o) ==
    /\ mw.pc = "await"
    /\ IF o.kind \in {"rejected", "timeout", "nonok"}
       THEN mw.results[i] = Pending
       ELSE mw.results[i] = Reading
    /\ mw' = [mw EXCEPT
                 !.results = SettleAt(@, i, FetchResult(collections[i], o)),
                 !.failed = IF o.kind = "ok" THEN @ ELSE @ \cup {i}]
    /\ UNCHANGED <<mwAnswered, mwResp, calcVars, srvVars, rfVars>>

\* Promise.allSettled resolves: totals, state, score and the 200 response
MarketWideFinish ==
    /\ mw.pc = "await"
    /\ \A i \in DOMAIN mw.results : ~InFlight(mw.results[i])
    /\ mwResp' = MarketWideResponse(mw.results)
    /\ mwAnswered' = TRUE
    /\ mw' = [mw EXCEPT !.pc = "idle"]
    /\ UNCHANGED <<calcVars, srvVars, rfVars>>

Methods == {"GET", "OPTIONS", "POST"}

MwSrvInit ==
    /\ server = "express"
    /\ apiKey \in BOOLEAN
    /\ now = 0
    /\ cache = [c \in Contracts |-> Null]
    /\ req = [s \in AllSlots |-> Idle]
    /\ lastResp = NoResponse

MwNext ==
    \/ \E method \in Methods : MarketWideStart(method)
    \/ \E i \in DOMAIN collections : MarketWideHeaders(i)
    \/ \E i \in DOMAIN collections : \E o \in MwOutcomes : MarketWideSettle(i, o)
    \/ MarketWideFinish


----------------------------------------------------------------------------
(* The scheduled refresh (refresh-sentiment.js 22-203) *)

TOP_COLLECTIONS == <<"BAYC", "CryptoPunks", "Azuki", "Moonbirds", "MAYC",
                     "Doodles", "CloneX">>

maxPages == 10

Secrets == {NoParam, "s3cret", "wrong"}

\* a sale of a getNFTSales page, newest first
RfSale(timestamp, seller, protocol, royalty) ==
    [blockTimestamp |-> timestamp, sellerFee |-> seller,
     protocolFee |-> protocol, royaltyFee |-> royalty]

\* the sales of an answer that is received at time t
RfSalesAt(sales, t) ==
    [i \in DOMAIN sales |->
        [sales[i] EXCEPT !.blockTimestamp = t - sales[i].blockTimestamp]]

\* what the fetch of one page can come to; in this set the time of a sale is
\* its age in hours, RfSalesAt makes it the time of the block
RfOutcomes ==
    {Outcome("rejected", Null), Outcome("nonok", Null),
     Outcome("badjson", Null),
     Outcome("ok", [nftSales |-> <<>>, pageKey |-> NoParam]),
     Outcome("ok", [nftSales |-> <<RfSale(1, 9000, 500, 500)>>,
                    pageKey |-> NoParam]),
     Outcome("ok", [nftSales |-> <<RfSale(1, 9000, 500, 500),
                                   RfSale(30, 9000, 500, 500)>>,
                    pageKey |-> "k1"])}

\* priceETH = parseFloat(sellerFee) + parseFloat(protocolFee)
\*            + parseFloat(royaltyFee): the amounts as they come, in Unit
RfPrice(sale) == (sale.sellerFee + sale.protocolFee + sale.royaltyFee) * Unit

RECURSIVE RfProcessStrict(_, _, _)
\* the loop with the cutoff itself left out of the window
RfProcessStrict(sales, twentyFourHoursAgo, acc) ==
    IF sales = <<>> THEN acc
    ELSE IF Head(sales).blockTimestamp <= twentyFourHoursAgo
         THEN [acc EXCEPT !.hitCutoff = TRUE]
         ELSE RfProcessStrict(Tail(sales), twentyFourHoursAgo,
                  IF RfPrice(Head(sales)) > 0
                  THEN [acc EXCEPT !.volume = @ + RfPrice(Head(sales)),
                                   !.sales = @ + 1]
                  ELSE acc)

RECURSIVE RfProcess(_, _, _)
\* the loop over the sales of a page: stops at the first sale older than the
\* cutoff, adds the sales of positive price
RfProcess(sales, twentyFourHoursAgo, acc) ==
    IF sales = <<>> THEN acc
    ELSE IF Head(sales).blockTimestamp < twentyFourHoursAgo
         THEN [acc EXCEPT !.hitCutoff = TRUE]
         ELSE RfProcess(Tail(sales), twentyFourHoursAgo,
                  IF RfPrice(Head(sales)) > 0
                  THEN [acc EXCEPT !.volume = @ + RfPrice(Head(sales)),
                                   !.sales = @ + 1]
                  ELSE acc)

\* no page has been answered, or the request for it failed
NoPage == [ok |-> FALSE, sales |-> <<>>]

\* found is the age of the snapshot that was in the store when the run began
\* (the handler never reads it), requests the number of page requests the run
\* has issued, lastPage the sales of the page answered last
RfIdle(runs) ==
    [pc |-> "idle", idx |-> 0, pageKey |-> NoParam, pageCount |-> 0,
     collectionVolume |-> 0, collectionSales |-> 0,
     totalVolume24h |-> 0, totalSales24h |-> 0,
     collectionResults |-> <<>>, failed |-> {}, runs |-> runs,
     found |-> NotChecked, requests |-> 0, lastPage |-> NoPage]

\* the collection in hand is taken up again
RfSameCollection(r) ==
    [r EXCEPT !.pageKey = NoParam, !.pageCount = 0,
              !.collectionVolume = 0, !.collectionSales = 0]

\* the next collection of the for loop, or the end of the loop
RfNextCollection(r) ==
    [r EXCEPT !.pc = IF r.idx = Len(TOP_COLLECTIONS) THEN "put" ELSE "fetch",
              !.idx = IF r.idx = Len(TOP_COLLECTIONS) THEN @ ELSE @ + 1,
              !.pageKey = NoParam, !.pageCount = 0,
              !.collectionVolume = 0, !.collectionSales = 0]

\* the entry of the collection without its share of the totals
RfPushEntryOnly(r) ==
    RfNextCollection(
        [r EXCEPT !.collectionResults =
                      Append(@, [contract |-> TOP_COLLECTIONS[r.idx],
                                 volume_24h |-> r.collectionVolume,
                                 sales_24h |-> r.collectionSales,
                                 pages_fetched |-> r.pageCount])])

\* after the do-while loop: the totals and the entry of the collection
RfPush(r) ==
    RfNextCollection(
        [r EXCEPT !.totalVolume24h = @ + r.collectionVolume,
                  !.totalSales24h = @ + r.collectionSales,
                  !.collectionResults =
                      Append(@, [contract |-> TOP_COLLECTIONS[r.idx],
                                 volume_24h |-> r.collectionVolume,
                                 sales_24h |-> r.collectionSales,
                                 pages_fetched |-> r.pageCount])])

\* the thresholds taken as the upper ends of their ranges
RfVolumeStateInclusive(totalVolume24h) ==
    IF totalVolume24h <= 2000 * Unit THEN "capitulation"
    ELSE IF totalVolume24h <= 4000 * Unit THEN "stagnation"
    ELSE IF totalVolume24h <= 7000 * Unit THEN "resilience"
    ELSE "euphoria"

\* VOLUME_THRESHOLDS; volume in Unit
RfVolumeState(totalVolume24h) ==
    IF totalVolume24h < 2000 * Unit THEN "capitulation"
    ELSE IF totalVolume24h < 4000 * Unit THEN "stagnation"
    ELSE IF totalVolume24h < 7000 * Unit THEN "resilience"
    ELSE "euphoria"

\* the snapshot built after the loop (refresh-sentiment.js 128-174)
Snapshot(r, t) ==
    [timestamp |-> t,
     market_state |-> RfVolumeState(r.totalVolume24h),
     sentiment_score |-> Min((r.totalVolume24h + 5000) \div 10000, Unit),
     indicators |->
         [total_volume_24h |-> r.totalVolume24h,
          total_sales_24h |-> r.totalSales24h,
          active_collections |-> Len(r.collectionResults),
          average_sale_price |->
              IF r.totalSales24h > 0
              THEN (2 * r.totalVolume24h + r.totalSales24h)
                       \div (2 * r.totalSales24h)
              ELSE 0,
          market_activity_score |-> Min((r.totalSales24h * Unit) \div 500, Unit)],
     raw_data |->
         [collections_analyzed |-> Len(TOP_COLLECTIONS),
          total_volume_eth |-> r.totalVolume24h,
          total_sales |-> r.totalSales24h,
          collection_breakdown |-> r.collectionResults]]

RfResponse(status, snapshot) == [status |-> status, snapshot |-> snapshot]

\* a response of the cached read: data is the stored snapshot it spreads into
\* the body (Null in the fixed body), note the note or error text of
\* raw_data ("none" without one); a field the body does not carry is FALSE
RdResponse(status, data, score, state, cached, fallback, age, stale, note) ==
    [status |-> status, data |-> data, sentiment_score |-> score,
     market_state |-> state, cached |-> cached, fallback |-> fallback,
     data_age_hours |-> age, is_stale |-> stale, note |-> note]

RdNoResponse ==
    RdResponse(0, Null, 0, "none", FALSE, FALSE, NotChecked, FALSE, "none")

RfNoResponse == RfResponse(0, Null)

\* the handler up to its first fetch: the secret, the key, the locals
RefreshStart(secret) ==
    /\ rf.pc = "idle"
    /\ rf.runs < MaxRuns
    /\ IF secret # cronSecret
       THEN /\ rfResp' = RfResponse(401, Null)
            /\ rf' = RfIdle(rf.runs + 1)
       ELSE IF ~apiKey
       THEN /\ rfResp' = RfResponse(500, Null)
            /\ rf' = RfIdle(rf.runs + 1)
       ELSE /\ rfResp' = RfNoResponse
            /\ rf' = [RfIdle(rf.runs + 1) EXCEPT !.pc = "fetch", !.idx = 1,
                                                 !.found = AgeOf(store, now)]
    /\ UNCHANGED <<cronSecret, store, rdResp, calcVars, srvVars, mwVars>>

\* the loop goes on as long as the upstream sends a page key
StopPagingNoLimit(hitCutoff, pageCount, pageKey) ==
    hitCutoff \/ pageKey = NoParam

\* if (hitCutoff || pageCount >= maxPages || !pageKey) break
StopPaging(hitCutoff, pageCount, pageKey) ==
    hitCutoff \/ pageCount >= maxPages \/ pageKey = NoParam

\* one page of the collection in hand is answered
RefreshPage(o) ==
    /\ rf.pc = "fetch"
    /\ IF o.kind \in {"rejected", "badjson"}
       THEN \* the exception ends the collection without an entry
            rf' = RfNextCollection([rf EXCEPT !.failed = @ \cup {rf.idx},
                                              !.requests = @ + 1,
                                              !.lastPage = NoPage])
       ELSE IF o.kind = "nonok"
       THEN rf' = RfPush([rf EXCEPT !.failed = @ \cup {rf.idx},
                                    !.requests = @ + 1,
                                    !.lastPage = NoPage])
       ELSE LET acc == RfProcess(RfSalesAt(o.body.nftSales, now), now - 24,
                           [volume |-> rf.collectionVolume,
                            sales |-> rf.collectionSales,
                            hitCutoff |-> FALSE])
                r == [rf EXCEPT !.collectionVolume = acc.volume,
                                !.collectionSales = acc.sales,
                                !.pageKey = o.body.pageKey,
                                !.pageCount = @ + 1,
                                !.requests = @ + 1,
                                !.lastPage =
                                    [ok |-> TRUE,
                                     sales |-> RfSalesAt(o.body.nftSales, now)]]
            IN  IF StopPaging(acc.hitCutoff, r.pageCount, r.pageKey)
                THEN rf' = RfPush(r)
                ELSE rf' = r
    /\ UNCHANGED <<cronSecret, store, rfResp, rdResp, calcVars, srvVars, mwVars>>

\* what the answer reports of the snapshot
RfReported(snapshot, r) ==
    [market_state |-> snapshot.market_state,
     total_volume_24h |-> snapshot.indicators.total_volume_24h,
     total_sales_24h |-> r.totalSales24h]

\* the request is answered as a success without a write to the store
RefreshPutNoWrite(stored) ==
    /\ rf.pc = "put"
    /\ store' = store
    /\ rfResp' = IF stored THEN RfResponse(200, RfReported(Snapshot(rf, now), rf))
                 ELSE RfResponse(500, Null)
    /\ rf' = [rf EXCEPT !.pc = "idle"]
    /\ UNCHANGED <<cronSecret, rdResp, calcVars, srvVars, mwVars>>

\* the snapshot is written to the blob store and the request answered
RefreshPut(stored) ==
    /\ rf.pc = "put"
    /\ IF stored
       THEN /\ store' = Snapshot(rf, now)
            /\ rfResp' = RfResponse(200, RfReported(Snapshot(rf, now), rf))
       ELSE /\ store' = store
            /\ rfResp' = RfResponse(500, Null)
    /\ rf' = [rf EXCEPT !.pc = "idle"]
    /\ UNCHANGED <<cronSecret, rdResp, calcVars, srvVars, mwVars>>

\* a snapshot an earlier run has left: every collection answered, no sales
EarlierSnapshot ==
    Snapshot([RfIdle(0) EXCEPT !.collectionResults =
                 [i \in DOMAIN TOP_COLLECTIONS |->
                     [contract |-> TOP_COLLECTIONS[i], volume_24h |-> 0,
                      sales_24h |-> 0, pages_fetched |-> 1]]], 0)

\* the same snapshot, left an hour ago
RecentSnapshot == [EarlierSnapshot EXCEPT !.timestamp = 47]

RfInit ==
    /\ rf = RfIdle(0)
    /\ cronSecret \in {NoParam, "s3cret"}
    /\ store \in {Null, EarlierSnapshot, RecentSnapshot}
    /\ rfResp = RfNoResponse
    /\ rdResp = RdNoResponse

RfQuiet ==
    /\ rf = RfIdle(0)
    /\ cronSecret = NoParam
    /\ store = Null
    /\ rfResp = RfNoResponse
    /\ rdResp = RdNoResponse

RfSrvInit ==
    /\ server = "express"
    /\ apiKey \in BOOLEAN
    /\ now = 48
    /\ cache = [c \in Contracts |-> Null]
    /\ req = [s \in AllSlots |-> Idle]
    /\ lastResp = NoResponse

RfNext ==
    \/ \E secret \in Secrets : RefreshStart(secret)
    \/ \E o \in RfOutcomes : RefreshPage(o)
    \/ \E stored \in BOOLEAN : RefreshPut(stored)

\* the collections whose sales of the last 24 hours fill more than one page
PagedCollections == {2}

\* the answers to a page request when histories of several pages are followed:
\* a page that goes on (one sale, a page key), a last page, a failure
RfPagedOutcomes(idx) ==
    IF idx \in PagedCollections
    THEN {Outcome("rejected", Null), Outcome("nonok", Null),
          Outcome("ok", [nftSales |-> <<RfSale(1, 9000, 500, 500)>>,
                         pageKey |-> "k1"]),
          Outcome("ok", [nftSales |-> <<>>, pageKey |-> NoParam])}
    ELSE {Outcome("rejected", Null), Outcome("nonok", Null),
          Outcome("ok", [nftSales |-> <<>>, pageKey |-> NoParam])}

RfPagedNext ==
    \/ \E secret \in Secrets : RefreshStart(secret)
    \/ \E o \in RfPagedOutcomes(rf.idx) : RefreshPage(o)
    \/ \E stored \in BOOLEAN : RefreshPut(stored)

\* the two aggregating handlers are separate functions with no state in
\* common: a behaviour follows the rounds of one of them
MwUntouched == mw = MwIdle /\ ~mwAnswered /\ mwResp = MwNoResponse
RfUntouched == rf = RfIdle(0) /\ rfResp = RfNoResponse

RoundsInit ==
    /\ CalcQuiet /\ RfSrvInit /\ MwInit
    /\ rf = RfIdle(0) /\ cronSecret = "s3cret" /\ store = Null
    /\ rfResp = RfNoResponse
    /\ rdResp = RdNoResponse

RoundsNext ==
    \/ \E method \in Methods : RfUntouched /\ MarketWideStart(method)
    \/ \E i \in DOMAIN collections : RfUntouched /\ MarketWideHeaders(i)
    \/ \E i \in DOMAIN collections : \E o \in MwOutcomes :
           RfUntouched /\ MarketWideSettle(i, o)
    \/ RfUntouched /\ MarketWideFinish
    \/ \E secret \in Secrets : MwUntouched /\ RefreshStart(secret)
    \/ \E o \in RfPagedOutcomes(rf.idx) : MwUntouched /\ RefreshPage(o)
    \/ \E stored \in BOOLEAN : MwUntouched /\ RefreshPut(stored)

SpecRounds == RoundsInit /\ [][RoundsNext]_vars

\* pages of getNFTSales?order=desc, newest sale first, the time of a sale its
\* age in hours: a sale at the cutoff, a sale without a price, sales older
\* than the cutoff, with a page key on each page but the empty one
RfWindowPages ==
    {[nftSales |-> <<>>, pageKey |-> NoParam],
     [nftSales |-> <<RfSale(1, 3, 1, 1)>>, pageKey |-> "k1"],
     [nftSales |-> <<RfSale(2, 5, 0, 0), RfSale(24, 7, 0, 0)>>,
      pageKey |-> "k1"],
     [nftSales |-> <<RfSale(3, 0, 0, 0), RfSale(20, 2, 0, 0)>>,
      pageKey |-> "k1"],
     [nftSales |-> <<RfSale(23, 0, 0, 0), RfSale(25, 4, 0, 0),
                     RfSale(30, 4, 0, 0)>>, pageKey |-> "k1"],
     [nftSales |-> <<RfSale(25, 4, 0, 0)>>, pageKey |-> "k1"]}

\* the first collection has sales on both sides of the cutoff
RfWindowOutcomes(idx) ==
    IF idx = 1
    THEN {Outcome("rejected", Null), Outcome("nonok", Null)}
             \cup {Outcome("ok", page) : page \in RfWindowPages}
    ELSE {Outcome("rejected", Null),
          Outcome("ok", [nftSales |-> <<>>, pageKey |-> NoParam]),
          Outcome("ok", [nftSales |-> <<RfSale(1, 2, 0, 0)>>,
                         pageKey |-> NoParam])}

WindowInit ==
    /\ CalcQuiet /\ RfSrvInit /\ MwQuiet
    /\ rf = RfIdle(0) /\ cronSecret = "s3cret" /\ store = Null
    /\ rfResp = RfNoResponse
    /\ rdResp = RdNoResponse

WindowNext ==
    \/ \E secret \in Secrets : RefreshStart(secret)
    \/ \E o \in RfWindowOutcomes(rf.idx) : RefreshPage(o)
    \/ \E stored \in BOOLEAN : RefreshPut(stored)

SpecWindow == WindowInit /\ [][WindowNext]_vars

MwSpecInit == CalcQuiet /\ MwSrvInit /\ MwInit /\ RfQuiet

SpecMW == MwSpecInit /\ [][MwNext]_vars

RfSpecInit == CalcQuiet /\ RfSrvInit /\ MwQuiet /\ RfInit

SpecRefresh == RfSpecInit /\ [][RfNext]_vars

-----------------------------------------------------------------------------
(* The cached read (routes.ts 518-609): specification SpecReader *)

\* hours after which a served snapshot is flagged
STALE_AFTER == 36

\* the flag is raised at 36 hours already
IsStaleInclusive(dataAge) == dataAge >= STALE_AFTER

\* isStale = dataAge > 36 hours
IsStale(dataAge) == dataAge > STALE_AFTER

\* the failure is passed on to the caller
ReadError(note) ==
    RdResponse(500, Null, 0, "none", FALSE, FALSE, NotChecked, FALSE, note)

\* the fixed neutral body, sent with status 200
ReadFallback(note) ==
    RdResponse(200, Null, Unit \div 2, "stagnation", FALSE, TRUE, NotChecked,
               FALSE, note)

\* the stored snapshot with the fields the handler adds
ReadServed(cachedData, t) ==
    RdResponse(200, cachedData, cachedData.sentiment_score,
               cachedData.market_state, TRUE, FALSE, t - cachedData.timestamp,
               IsStale(t - cachedData.timestamp), "none")

\* what list() and the fetch of the blob can come to
ListOutcomes == {"rejected", "ok"}
BlobOutcomes == {"rejected", "nonok", "badjson", "ok"}

\* one request of the cached read, from list() to the response
CachedRead(lo, bo) ==
    /\ rdResp' =
           IF lo = "rejected" THEN ReadFallback("list failed")
           ELSE IF store = Null
           THEN ReadFallback("Fallback data - no cached sentiment available")
           ELSE IF bo = "rejected" THEN ReadFallback("fetch failed")
           ELSE IF bo = "nonok" THEN ReadFallback("Failed to fetch cached data")
           ELSE IF bo = "badjson" THEN ReadFallback("Unexpected token")
           ELSE ReadServed(store, now)
    /\ UNCHANGED <<rf, cronSecret, store, rfResp, calcVars, srvVars, mwVars>>

\* a refresh has put a snapshot of this hour into the store
BlobWritten ==
    /\ store' = [EarlierSnapshot EXCEPT !.timestamp = now]
    /\ UNCHANGED <<rf, cronSecret, rfResp, rdResp, calcVars, srvVars, mwVars>>

\* time passes for the reader
ReadTick ==
    /\ now < MaxReadTicks * TickHours
    /\ now' = now + TickHours
    /\ UNCHANGED <<server, apiKey, cache, req, lastResp>>
    /\ UNCHANGED <<calcVars, mwVars, rfVars>>

RdSpecInit ==
    /\ CalcQuiet /\ SrvQuiet /\ MwQuiet
    /\ rf = RfIdle(0) /\ cronSecret = NoParam /\ rfResp = RfNoResponse
    /\ store \in {Null, EarlierSnapshot}
    /\ rdResp = RdNoResponse

RdNext ==
    \/ \E lo \in ListOutcomes, bo \in BlobOutcomes : CachedRead(lo, bo)
    \/ BlobWritten
    \/ ReadTick

SpecReader == RdSpecInit /\ [][RdNext]_vars

----------------------------------------------------------------------------
(* The single-collection server: specification Spec *)

Init == CalcQuiet /\ SrvInit /\ MwQuiet /\ RfQuiet

\* requests are handled one at a time
Next ==
    \/ \E c \in ContractParams : MarketSentimentStart(1, c)
    \/ \E fo \in FloorOutcomes, so \in SalesOutcomes :
           MarketSentimentFinish(1, fo, so)
    \/ \E c \in ContractParams, f \in ForceParams : NftImageStart(1, c, f)
    \/ \E fo \in FloorOutcomes, so \in SalesOutcomes :
           NftImageFinish(1, fo, so)
    \/ Tick

Spec == Init /\ [][Next]_vars

\* requests of the Express server overlap: a second request is taken up
\* while the first waits for its fetches
ConcInit == CalcQuiet /\ SrvQuiet /\ MwQuiet /\ RfQuiet

\* what the upstream answers to overlapping requests
ConcFloorOutcomes == {Outcome("ok", [floorPrice |-> 1500000])}
ConcSalesOutcomes ==
    {Outcome("rejected", Null), Outcome("ok", [nftSales |-> <<SaleAt(0, 1, 10, 0, 0)>>])}

ConcNext ==
    \/ \E r \in AllSlots, c \in ContractParams : MarketSentimentStart(r, c)
    \/ \E r \in AllSlots, fo \in ConcFloorOutcomes, so \in ConcSalesOutcomes :
           MarketSentimentFinish(r, fo, so)
    \/ \E r \in AllSlots, c \in ContractParams, f \in ForceParams :
           NftImageStart(r, c, f)
    \/ \E r \in AllSlots, fo \in ConcFloorOutcomes, so \in ConcSalesOutcomes :
           NftImageFinish(r, fo, so)
    \/ Tick

SpecConc == ConcInit /\ [][ConcNext]_vars

\* overlapping requests for one key, with the upstream answering a request
\* some time before its handler goes on
RaceContract == CHOOSE c \in Contracts : TRUE

RaceInit == CalcQuiet /\ SrvQuiet /\ MwQuiet /\ RfQuiet

RaceNext ==
    \/ \E r \in AllSlots : MarketSentimentStart(r, RaceContract)
    \/ \E r \in AllSlots : UpstreamAnswered(r)
    \/ \E r \in AllSlots, fo \in ConcFloorOutcomes, so \in ConcSalesOutcomes :
           MarketSentimentFinish(r, fo, so)
    \/ \E r \in AllSlots : NftImageStart(r, RaceContract, NoParam)
    \/ \E r \in AllSlots, fo \in ConcFloorOutcomes, so \in ConcSalesOutcomes :
           NftImageFinish(r, fo, so)
    \/ Tick

SpecRace == RaceInit /\ [][RaceNext]_vars

----------------------------------------------------------------------------
(* The computation applied to every input: specification SpecCalc *)

CalcInit ==
    /\ phase = "input"
    /\ floorData \in FloorInputs
    /\ variant \in Variants
    /\ calcNow \in NowSamples
    /\ salesData \in SalesInputs(calcNow)
    /\ result = Null
    /\ scoreA = Fin(0) /\ scoreB = Fin(0)
    /\ stateA = "none" /\ stateB = "none"
    /\ SrvQuiet /\ MwQuiet /\ RfQuiet

\* result = calculateMarketSentiment(floorData, salesData)
CalcApply ==
    /\ phase = "input"
    /\ phase' = "computed"
    /\ result' = calculateMarketSentiment(variant, floorData, salesData, calcNow)
    /\ UNCHANGED <<floorData, salesData, variant, calcNow,
                   scoreA, scoreB, stateA, stateB>>
    /\ UNCHANGED <<srvVars, mwVars, rfVars>>

\* the next call, with new arguments
CalcInput ==
    /\ phase = "computed"
    /\ phase' = "input"
    /\ floorData' \in FloorInputs
    /\ variant' \in Variants
    /\ calcNow' \in NowSamples
    /\ salesData' \in SalesInputs(calcNow')
    /\ result' = Null
    /\ UNCHANGED <<scoreA, scoreB, stateA, stateB>>
    /\ UNCHANGED <<srvVars, mwVars, rfVars>>

CalcNext == CalcApply \/ CalcInput

SpecCalc == CalcInit /\ [][CalcNext]_vars

----------------------------------------------------------------------------
(* The threshold classification on its own: specification SpecClassify *)

Boundaries == {25 * (ScoreUnit \div 100), 50 * (ScoreUnit \div 100),
               75 * (ScoreUnit \div 100)}

\* scores in [0, 1]: an equidistant grid, and each boundary with its neighbours
ScoreGrid ==
    {(i * ScoreUnit) \div GridPoints : i \in 0..GridPoints}
        \cup {b + d : b \in Boundaries, d \in {-1, 0, 1}}

ClassifyInit ==
    /\ phase = "classify"
    /\ floorData = Null /\ salesData = Null /\ variant = "netlify"
    /\ calcNow = 0 /\ result = Null
    /\ scoreA = Fin(0) /\ stateA = ClassifyScore(Fin(0))
    /\ scoreB = Fin(0) /\ stateB = ClassifyScore(Fin(0))
    /\ SrvQuiet /\ MwQuiet /\ RfQuiet

\* one more call of the classification; the previous call is kept in A
ClassifyNext ==
    /\ \E s \in ScoreGrid :
         /\ scoreB' = Fin(s)
         /\ stateB' = ClassifyScore(Fin(s))
    /\ scoreA' = scoreB
    /\ stateA' = stateB
    /\ UNCHANGED <<phase, floorData, salesData, variant, calcNow, result>>
    /\ UNCHANGED <<srvVars, mwVars, rfVars>>

SpecClassify == ClassifyInit /\ [][ClassifyNext]_vars

----------------------------------------------------------------------------
(* Claims about the computation *)

\* C3: each of the five indicators of every computed result is a finite
\* number within [0, 1], whatever the floor price, sales and reference volume.
C3_IndicatorsFiniteInUnitRange ==
    phase = "computed" =>
        \A n \in IndicatorNames :
            /\ IsFinite(result.indicators[n])
            /\ 0 <= result.indicators[n].v
            /\ result.indicators[n].v <= Unit

\* the state the fixed threshold table assigns to a score counted in ScoreUnit
TableState(v) ==
    IF 4 * v < ScoreUnit THEN "capitulation"
    ELSE IF 2 * v < ScoreUnit THEN "stagnation"
    ELSE IF 4 * v < 3 * ScoreUnit THEN "resilience"
    ELSE "euphoria"

\* C4: the returned market_state is the state the threshold table assigns to
\* the returned (rounded) sentiment_score.
C4_StateIsTableOfReturnedScore ==
    (phase = "computed" /\ IsFinite(result.sentiment_score)) =>
        result.market_state = TableState(result.sentiment_score.v)

Rank(st) ==
    CASE st = "capitulation" -> 0
      [] st = "stagnation" -> 1
      [] st = "resilience" -> 2
      [] st = "euphoria" -> 3

\* C5: the classification of a score in [0, 1] yields one of the four states,
\* is the same for the same score whatever was classified before, never
\* decreases when the score grows, and steps up by one state exactly at each of
\* 0.25, 0.50 and 0.75, the boundary value itself being in the higher state.
C5_ClassifyTotalMonotone ==
    /\ stateA \in States /\ stateB \in States
    /\ scoreA = scoreB => stateA = stateB
    /\ scoreA.v <= scoreB.v =>
         Rank(stateB) - Rank(stateA) =
             Cardinality({b \in Boundaries : scoreA.v < b /\ b <= scoreB.v})

\* a score just below 0.25 was classified, then 0.25 itself
C5_Witness ==
    /\ scoreA.v = 25 * (ScoreUnit \div 100) - 1 /\ stateA = "capitulation"
    /\ scoreB.v = 25 * (ScoreUnit \div 100) /\ stateB = "stagnation"

----------------------------------------------------------------------------
(* Claims about the single-collection handlers *)

\* the fixed neutral result: score 0.5, state stagnation
IsNeutral(data) ==
    /\ data # Null
    /\ data.sentiment_score = Fin(ScoreUnit \div 2)
    /\ data.market_state = "stagnation"

\* C1: a /api/market-sentiment request for a contract whose upstream fetches
\* all failed, or that found no ALCHEMY_API_KEY, is answered with the neutral
\* result (score 0.5, stagnation), never with an error.
C1_TotalFailureFallback ==
    (/\ lastResp.route = "ms"
     /\ lastResp.contract # NoParam
     /\ (~apiKey \/ lastResp.upstream = "failed")) =>
        (lastResp.kind = "data" /\ IsNeutral(lastResp.data))

\* C2: an /api/nft-image request whose floor-price and sales fetches both
\* failed is redirected to the stagnation asset.
C2_ImageFallbackStagnation ==
    (lastResp.route = "img" /\ lastResp.upstream = "failed") =>
        lastResp.location = ASSET_URLS.stagnation

\* C6: on the server whose two routes share the cache, every result stored in
\* the cache and every result sent to a caller passes the schema.
C6_OnlyValidatedResults ==
    server = "express" =>
        /\ \A k \in Contracts :
               cache[k] # Null => marketSentimentSchema(cache[k].data)
        /\ lastResp.kind = "data" => marketSentimentSchema(lastResp.data)

\* the response of a step is one of a request that came to the cache check
CheckedResponse == lastResp' # lastResp /\ lastResp'.age # NotChecked

\* the entry of the answered request's key was replaced as a whole
EntryReplaced ==
    /\ cache'[lastResp'.contract] # Null
    /\ cache'[lastResp'.contract].timestamp = now
    /\ \A k \in Contracts : k # lastResp'.contract => cache'[k] = cache[k]

\* the handler came to a result it keeps: no exception, and on
\* /api/market-sentiment a result that passes the schema
ResultKept ==
    /\ lastResp'.data # Null
    /\ lastResp'.route = "ms" => lastResp'.kind = "data"

ServedIffYoung ==
    /\ lastResp'.fromCache <=>
           (lastResp'.age # Absent /\ lastResp'.age < CACHE_DURATION)
    /\ lastResp'.fromCache => (lastResp'.fetches = 0 /\ cache' = cache)
    /\ ~lastResp'.fromCache => lastResp'.fetches = 2

\* C8 as stated: an entry is served without recomputation exactly when its age
\* is below 12 hours; otherwise (or without an entry) the handler fetches from
\* upstream again and replaces the entry.
C8_TtlServeElseReplace ==
    [][CheckedResponse =>
          /\ ServedIffYoung
          /\ ~lastResp'.fromCache => EntryReplaced]_vars

\* C8 as amended: an entry is served without recomputation exactly when its
\* age is below 12 hours; otherwise (or without an entry) the handler fetches
\* from upstream again, and replaces the entry with the new result and the
\* current time if it comes to a result it keeps (json() did not throw and, on
\* /api/market-sentiment, the result passes the schema), and else leaves the
\* cache as it was.
C8_TtlServeElseRecompute ==
    [][CheckedResponse =>
          /\ ServedIffYoung
          /\ (~lastResp'.fromCache /\ ResultKept) =>
                 (EntryReplaced /\ cache'[lastResp'.contract].data = lastResp'.data)
          /\ (~lastResp'.fromCache /\ ~ResultKept) => cache' = cache]_vars

\* an entry aged exactly 12 hours was found, fetched again and replaced
C8_Witness ==
    /\ lastResp.age = CACHE_DURATION
    /\ ~lastResp.fromCache /\ lastResp.fetches = 2
    /\ lastResp.kind = "data"
    /\ cache[lastResp.contract].timestamp = now
    /\ cache[lastResp.contract].data = lastResp.data

----------------------------------------------------------------------------
(* Claims about the aggregation over the collections *)

\* C7 (as the claim states it, for the market-wide handler): a request that
\* follows an answered one, with no refresh and no time passed in between,
\* performs zero upstream network calls.
C7_SecondCallNoUpstream ==
    (mwAnswered /\ mw.pc = "await") => mw.calls = 0

RfFinished == rfResp.status = 200

\* C9 (as the claim states it, for the scheduled refresh): when k of the N
\* collection fetches fail, the round completes and the snapshot reports
\* N - k successful collections of N and a valid state and score.
C9_PartialFailureCounts ==
    RfFinished =>
        /\ store.raw_data.collections_analyzed = Len(TOP_COLLECTIONS)
        /\ store.indicators.active_collections
               = Len(TOP_COLLECTIONS) - Cardinality(rf.failed)
        /\ store.market_state \in States
        /\ store.sentiment_score \in 0..Unit

\* C10 (as the claim states it, for the scheduled refresh): the per-collection
\* results are in the order of the requested list, result i belonging to
\* requested collection i, whichever fetches fail.
C10_ResultsInRequestOrder ==
    RfFinished =>
        /\ Len(store.raw_data.collection_breakdown) = Len(TOP_COLLECTIONS)
        /\ \A i \in DOMAIN store.raw_data.collection_breakdown :
               store.raw_data.collection_breakdown[i].contract
                   = TOP_COLLECTIONS[i]

----------------------------------------------------------------------------
(* Claims about the rounds of the two aggregating handlers *)

RECURSIVE SumOfOthers(_, _, _, _)
\* the sum of a field over the first n results, the failed collections left out
SumOfOthers(results, failed, field, n) ==
    IF n = 0 THEN 0
    ELSE (IF n \in failed THEN 0 ELSE results[n][field])
             + SumOfOthers(results, failed, field, n - 1)

IndexOf(contract) ==
    CHOOSE i \in DOMAIN TOP_COLLECTIONS : TOP_COLLECTIONS[i] = contract

RECURSIVE SumOfOtherEntries(_, _, _)
\* the sum of a field over the entries of the collections that did not fail
SumOfOtherEntries(entries, failed, field) ==
    IF entries = <<>> THEN 0
    ELSE (IF IndexOf(Head(entries).contract) \in failed THEN 0
          ELSE Head(entries)[field])
             + SumOfOtherEntries(Tail(entries), failed, field)

MwRoundDone == mw.pc = "idle" /\ mwResp.kind = "data"
RfRoundDone == rf.pc \in {"put", "idle"} /\ rf.idx = Len(TOP_COLLECTIONS)

\* C11 (as the claim states it): the failure of a fetch of one collection
\* leaves that collection with zero volume and zero sales, the round still
\* comes to every other collection, and the totals are the sums of what the
\* other collections gave.
C11_FailureTouchesOnlyItsCollection ==
    /\ \A i \in mw.failed :
           mw.results[i].volume = 0 /\ mw.results[i].sales = 0
    /\ MwRoundDone =>
           /\ mwResp.raw_data.total_sales
                  = SumOfOthers(mw.results, mw.failed, "sales", Len(collections))
           /\ mwResp.indicators.total_volume_24h
                  = Min(SumOfOthers(mw.results, mw.failed, "volume",
                                    Len(collections)) \div 10000, Unit)
    /\ \A k \in DOMAIN rf.collectionResults :
           IndexOf(rf.collectionResults[k].contract) \in rf.failed =>
               /\ rf.collectionResults[k].volume_24h = 0
               /\ rf.collectionResults[k].sales_24h = 0
    /\ RfRoundDone =>
           /\ \A i \in DOMAIN TOP_COLLECTIONS :
                  \/ i \in rf.failed
                  \/ \E k \in DOMAIN rf.collectionResults :
                         rf.collectionResults[k].contract = TOP_COLLECTIONS[i]
           /\ rf.totalVolume24h
                  = SumOfOtherEntries(rf.collectionResults, rf.failed, "volume_24h")
           /\ rf.totalSales24h
                  = SumOfOtherEntries(rf.collectionResults, rf.failed, "sales_24h")

\* C12: once the fetch of a collection has failed in a round, no further
\* request goes out for that collection in that round: in the on-demand
\* handler its promise stays settled, in the refresh no page is requested
\* for a collection that has failed.
C12_NoRetryInRound ==
    [][/\ (mw.pc = "await" /\ mw'.pc = "await") =>
              \A i \in mw.failed :
                  mw'.results[i] = mw.results[i] /\ mw'.calls = mw.calls
       /\ rf'.pc = "fetch" => rf'.idx \notin rf'.failed]_vars

\* a page after the first was refused and the round went on to the next
\* collection
C12_Witness ==
    /\ rf.pc = "fetch" /\ rf.idx = 3 /\ 2 \in rf.failed
    /\ \E k \in DOMAIN rf.collectionResults :
           /\ rf.collectionResults[k].contract = TOP_COLLECTIONS[2]
           /\ rf.collectionResults[k].pages_fetched >= 1

\* C13 (as the claim states it, for the on-demand handler): every upstream
\* call the handler waits on, for the response or for its body, has its
\* timeout armed, so that the wait ends even if the upstream never answers.
C13_EveryUpstreamWaitHasTimeout ==
    mw.pc = "await" =>
        \A i \in DOMAIN mw.results :
            InFlight(mw.results[i]) => mw.results[i].timer

\* the collections the refresh has requested a page of
RfStarted == {i \in DOMAIN TOP_COLLECTIONS : i <= rf.idx}

\* the collections the refresh is through with
RfCompleted ==
    rf.failed \cup {IndexOf(rf.collectionResults[k].contract) :
                       k \in DOMAIN rf.collectionResults}

-----------------------------------------------------------------------------
(* The volume of one list of sales in each handler: specification SpecVolume *)

\* the hour at which the sales are summed, and the hour of their blocks
VolumeNow == 48

\* a sale of the last 24 hours with fee amounts BigInt() accepts
VolumeSale(seller, protocol, royalty) ==
    [blockTimestamp |-> VolumeNow - 1, sellerFee |-> seller,
     protocolFee |-> protocol, royaltyFee |-> royalty, valid |-> TRUE]

VolumeSales ==
    {VolumeSale(seller, protocol, royalty) :
        seller \in {0, 9000, 30000}, protocol \in {0, 500}, royalty \in {0, 500}}

\* the nftSales lists of up to MaxSales sales
VolumeInputs ==
    UNION {[1..n -> VolumeSales] : n \in 0..MaxSales}

\* the market-wide handler when the first collection has these sales and the
\* others none
OnDemandTotals(sales) ==
    LET response ==
            MarketWideResponse(
                [i \in DOMAIN collections |->
                    FetchResult(collections[i],
                        Outcome("ok", [nftSales |-> IF i = 1 THEN sales ELSE <<>>]))])
    IN  [volume |-> SumField(response.results, "volume"),
         market_state |-> response.market_state]

\* the refresh when the first collection has these sales on one page and
\* the others none
RefreshTotals(sales, t) ==
    LET acc == RfProcess(sales, t - 24,
                         [volume |-> 0, sales |-> 0, hitCutoff |-> FALSE])
        snapshot == Snapshot([RfIdle(0) EXCEPT !.totalVolume24h = acc.volume,
                                               !.totalSales24h = acc.sales], t)
    IN  [volume |-> snapshot.indicators.total_volume_24h,
         market_state |-> snapshot.market_state]

\* volume24h of the Express copy of calculateMarketSentiment
ExpressVolume24h(sales, t) ==
    SumSeq(Prices("express", SalesAfter(sales, t - 24)))

VolumeInit ==
    /\ phase = "sales"
    /\ floorData = Null /\ variant = "express"
    /\ calcNow = VolumeNow
    /\ salesData \in VolumeInputs
    /\ result = Null
    /\ scoreA = Fin(0) /\ scoreB = Fin(0)
    /\ stateA = "none" /\ stateB = "none"
    /\ SrvQuiet /\ MwQuiet /\ RfQuiet

\* each handler sums the same sales
VolumeApply ==
    /\ phase = "sales"
    /\ phase' = "summed"
    /\ result' = [onDemand |-> OnDemandTotals(salesData),
                  refresh |-> RefreshTotals(salesData, calcNow),
                  express |-> ExpressVolume24h(salesData, calcNow)]
    /\ UNCHANGED <<floorData, salesData, variant, calcNow,
                   scoreA, scoreB, stateA, stateB>>
    /\ UNCHANGED <<srvVars, mwVars, rfVars>>

VolumeNext == VolumeApply

SpecVolume == VolumeInit /\ [][VolumeNext]_vars

\* the volumes at which the market state changes, in ETH
VolumeBoundaries == {2000, 4000, 7000}

\* sales whose amounts bring the total of the refresh to a boundary and to
\* either side of it
ThresholdSales ==
    {VolumeSale(0, 0, 0)}
        \cup {VolumeSale(b + d, 0, 0) : b \in VolumeBoundaries, d \in {0 - 1, 0, 1}}

\* sales whose amounts do the same for the total of the market-wide handler
ThresholdWeiSales ==
    {VolumeSale(b * WeiPerEth + d, 0, 0) :
        b \in VolumeBoundaries, d \in {0 - 1, 0, 1}}

\* the nftSales lists of up to MaxSales sales, at most one of them large
ThresholdInputs ==
    UNION {[1..n -> ThresholdSales] : n \in 0..MaxSales}
        \cup {Append(sales, large) :
                 sales \in UNION {[1..n -> ThresholdSales] : n \in 0..(MaxSales - 1)},
                 large \in ThresholdWeiSales}

ThresholdInit ==
    /\ phase = "sales"
    /\ floorData = Null /\ variant = "express"
    /\ calcNow = VolumeNow
    /\ salesData \in ThresholdInputs
    /\ result = Null
    /\ scoreA = Fin(0) /\ scoreB = Fin(0)
    /\ stateA = "none" /\ stateB = "none"
    /\ SrvQuiet /\ MwQuiet /\ RfQuiet

SpecThreshold == ThresholdInit /\ [][VolumeNext]_vars

-----------------------------------------------------------------------------
(* The score of one list of sales in each handler: specification SpecScore *)

\* sales of the last 24 hours, of amounts small enough for the score of the
\* refresh to stay below 1
ScoreSales ==
    {VolumeSale(seller, protocol, royalty) :
        seller \in {0, 3, 37}, protocol \in {0, 5}, royalty \in {0, 5}}

ScoreInputs == UNION {[1..n -> ScoreSales] : n \in 0..MaxSales}

\* the response of the market-wide handler when the first collection has
\* these sales and the others none
OnDemandResponse(sales) ==
    MarketWideResponse(
        [i \in DOMAIN collections |->
            FetchResult(collections[i],
                Outcome("ok", [nftSales |-> IF i = 1 THEN sales ELSE <<>>]))])

\* the snapshot of the refresh when the first collection has these sales on
\* one page and the others none
RefreshSnapshot(sales, t) ==
    LET acc == RfProcess(sales, t - 24,
                         [volume |-> 0, sales |-> 0, hitCutoff |-> FALSE])
    IN  Snapshot([RfIdle(0) EXCEPT !.totalVolume24h = acc.volume,
                                   !.totalSales24h = acc.sales], t)

ScoreInit ==
    /\ phase = "unscored"
    /\ floorData \in FloorInputs
    /\ variant \in Variants
    /\ calcNow = VolumeNow
    /\ salesData \in ScoreInputs
    /\ result = Null
    /\ scoreA = Fin(0) /\ scoreB = Fin(0)
    /\ stateA = "none" /\ stateB = "none"
    /\ SrvQuiet /\ MwQuiet /\ RfQuiet

\* each handler scores the same sales
ScoreApply ==
    /\ phase = "unscored"
    /\ phase' = "scored"
    /\ result' =
           [single |-> calculateMarketSentiment(variant, floorData,
                           [nftSales |-> salesData], calcNow),
            onDemand |-> OnDemandResponse(salesData),
            refresh |-> RefreshSnapshot(salesData, calcNow)]
    /\ UNCHANGED <<floorData, salesData, variant, calcNow,
                   scoreA, scoreB, stateA, stateB>>
    /\ UNCHANGED <<srvVars, mwVars, rfVars>>

ScoreNext == ScoreApply

SpecScore == ScoreInit /\ [][ScoreNext]_vars

-----------------------------------------------------------------------------
(* Claims about overlapping requests and the life of a cache entry *)

\* request r is answered in this step after its two fetches, with a result
\* it keeps
AnsweredWithResult(r) ==
    /\ req[r].pc = "await" /\ req'[r].pc = "idle"
    /\ lastResp'.slot = r /\ lastResp'.fetches = 2 /\ lastResp'.data # Null

\* request r is answered in this step at the cache check, without a fetch
AnsweredAtCheck(r) ==
    /\ req[r].pc = "idle" /\ lastResp' # lastResp
    /\ lastResp'.slot = r /\ lastResp'.age # NotChecked /\ lastResp'.fetches = 0

\* C15: nothing makes a request wait for, or share the work of, another
\* request for the same key: a request is answered without fetching only from
\* an entry younger than 12 hours, and every request that comes to a result
\* writes it to the cache, whatever was written since its own cache check. So
\* two overlapping requests that both miss both fetch and both write.
C15_NoSingleWriter ==
    [][\A r \in AllSlots :
          /\ AnsweredAtCheck(r) =>
                 (lastResp'.fromCache /\ lastResp'.age >= 0
                      /\ lastResp'.age < CACHE_DURATION)
          /\ AnsweredWithResult(r) =>
                 cache'[cacheKey(req[r].contract)] =
                     [data |-> lastResp'.data, timestamp |-> now]]_vars

\* two requests for the same key both found no entry and both fetched; the
\* first has written its result, the second is still to write its own
C15_Witness ==
    \E c \in Contracts :
        /\ req[2].pc = "await" /\ req[2].contract = c /\ req[2].age = Absent
        /\ lastResp.slot = 1 /\ lastResp.contract = c /\ lastResp.age = Absent
        /\ lastResp.fetches = 2 /\ lastResp.data # Null
        /\ cache[cacheKey(c)] = [data |-> lastResp.data, timestamp |-> now]

\* C16: the cache holds one entry for each key at most, an entry once present
\* is never removed, and an entry changes only by being replaced as a whole:
\* the data of the answered request together with the time of the write.
C16_ReplacedWholeNeverRemoved ==
    [][/\ DOMAIN cache' = Contracts
       /\ \A k \in Contracts :
              /\ cache[k] # Null => cache'[k] # Null
              /\ cache'[k] # cache[k] =>
                     /\ cacheKey(lastResp'.contract) = k
                     /\ cache'[k] = [data |-> lastResp'.data, timestamp |-> now]]_vars

\* an entry older than 12 hours was found and replaced: new data and new
\* timestamp, while the entry of another key stayed in the cache
C16_Witness ==
    /\ lastResp.age > CACHE_DURATION /\ lastResp.fetches = 2
    /\ cache[cacheKey(lastResp.contract)] = [data |-> lastResp.data, timestamp |-> now]
    /\ \E k \in Contracts :
           /\ k # cacheKey(lastResp.contract)
           /\ cache[k] # Null /\ now - cache[k].timestamp > CACHE_DURATION

-----------------------------------------------------------------------------
(* Claims about the stored snapshot *)

\* C17: a refresh that is not turned away (wrong secret, missing key) goes to
\* the upstream whatever the age of the snapshot in the store; the store is
\* written only in the step that answers 200, once, with a snapshot of the
\* time of the run whose market_state and totals are those of the answer; a
\* run answered 200 went through every collection of the list.
C17_RefreshAlwaysRecomputesAndWrites ==
    [][/\ (rf.pc = "idle" /\ rf'.runs # rf.runs /\ rfResp'.status \notin {401, 500})
              => (rf'.pc = "fetch" /\ rf'.idx = 1 /\ store' = store)
       /\ store' # store => (rf.pc = "put" /\ rfResp'.status = 200)
       /\ (rf.pc = "put" /\ rfResp'.status = 200) =>
              /\ rf.idx = Len(TOP_COLLECTIONS)
              /\ store' # Null
              /\ store'.timestamp = now
              /\ store'.market_state = rfResp'.snapshot.market_state
              /\ store'.indicators.total_volume_24h
                     = rfResp'.snapshot.total_volume_24h
              /\ store'.indicators.total_sales_24h
                     = rfResp'.snapshot.total_sales_24h]_vars

\* a run that began with a snapshot one hour old in the store fetched again
\* and replaced it with one of another market_state
C17_Witness ==
    /\ rf.found = 1
    /\ rfResp.status = 200
    /\ store.timestamp = now
    /\ store.market_state = rfResp.snapshot.market_state
    /\ store.market_state # RecentSnapshot.market_state

\* the step sends a response of the cached read
ReadAnswered == rdResp' # rdResp

\* C18: the cached read serves the stored snapshot whatever its age: a read
\* that gets the snapshot can always be answered with it; the answer is 200
\* with the snapshot, cached = true, its age, and is_stale exactly when the
\* age is greater than 36 hours; the read leaves the store as it is.
C18_ServedAtAnyAge ==
    /\ [](store # Null =>
              ENABLED (CachedRead("ok", "ok") /\ rdResp'.data = store))
    /\ [][(ReadAnswered /\ rdResp'.cached) =>
              /\ store' = store
              /\ rdResp'.status = 200 /\ rdResp'.data = store
              /\ rdResp'.data_age_hours = now - store.timestamp
              /\ rdResp'.is_stale <=> (now - store.timestamp > 36)]_vars

\* a snapshot aged exactly 36 hours was served and not flagged
C18_Witness ==
    /\ rdResp.cached /\ rdResp.status = 200
    /\ rdResp.data # Null /\ rdResp.data_age_hours = 36
    /\ ~rdResp.is_stale

\* C19: every answer of the cached read has status 200; an answer that does
\* not carry the snapshot (there is none, or list, fetch or parse failed) is
\* the fixed body: sentiment_score 0.5, market_state stagnation, cached false,
\* fallback true; without a snapshot no other answer is given.
C19_ReaderNeverAnswersError ==
    /\ [](rdResp # RdNoResponse => rdResp.status = 200)
    /\ []((rdResp # RdNoResponse /\ (rdResp.data = Null \/ rdResp.note # "none")) =>
              /\ 2 * rdResp.sentiment_score = Unit
              /\ rdResp.market_state = "stagnation"
              /\ ~rdResp.cached /\ rdResp.fallback)
    /\ [][(ReadAnswered /\ store = Null) => rdResp'.fallback]_vars

\* a snapshot is in the store, its fetch was answered with a status that is
\* not ok, and the read answered 200 with the fixed body
C19_Witness ==
    /\ store # Null
    /\ rdResp.note = "Failed to fetch cached data"
    /\ rdResp.status = 200 /\ rdResp.fallback /\ ~rdResp.cached
    /\ rdResp.market_state = "stagnation"

-----------------------------------------------------------------------------
(* Claims about the unit of the volume *)

RECURSIVE VolumeInEth(_)
\* (sellerFee + protocolFee + royaltyFee) / 10^18 summed over the sales, in Unit
VolumeInEth(sales) ==
    IF sales = <<>> THEN 0
    ELSE ((Head(sales).sellerFee + Head(sales).protocolFee
               + Head(sales).royaltyFee) * Unit) \div WeiPerEth
         + VolumeInEth(Tail(sales))

\* C20 (as the claim states it): every handler that sums sale prices divides
\* the wei amounts of the three fees by 10^18, so for the same sales the
\* market-wide handler and the refresh come to the same total volume and the
\* same market_state.
C20_VolumeInEthEverywhere ==
    phase = "summed" =>
        /\ result.onDemand.volume = VolumeInEth(salesData)
        /\ result.refresh.volume = VolumeInEth(salesData)
        /\ result.express = VolumeInEth(salesData)
        /\ result.refresh.market_state = result.onDemand.market_state

-----------------------------------------------------------------------------
(* Claims about the indicators and the score *)

\* the volume the copy v sums over the sales of the last given hours
WindowVolume(v, sd, t, hours) ==
    SumSeq(Prices(v, SalesAfter(SalesOf(sd), t - hours)))

\* clamp((volume24h / (volumeRef / days)) * 0.5, 0, 1), or 0 without volume
ExpectedRatio(volume24h, volumeRef, days) ==
    IF volumeRef > 0
    THEN Fin(Min((volume24h * days * Unit) \div (2 * volumeRef), Unit))
    ELSE Fin(0)

ClampUnit(x) == IF x < 0 THEN 0 ELSE IF x > Unit THEN Unit ELSE x

\* C22 (as the claim states it): price_volatility is 0.5 without sales of the
\* last 24 hours; with such sales and a floor price of zero the ratio
\* stddev / floorPrice counts as 0 and price_volatility is 1; otherwise it is
\* clamp(1 - stddev(prices24h) / floorPrice, 0, 1).
C22_VolatilityGuardsZeroFloor ==
    phase = "computed" =>
        LET prices24h ==
                Prices(variant, SalesAfter(SalesOf(salesData), calcNow - 24))
            floor == FloorPriceOf(floorData)
        IN  result.indicators.price_volatility =
                IF Len(prices24h) = 0 THEN Fin(Unit \div 2)
                ELSE IF floor = 0 THEN Fin(Unit)
                ELSE Fin(ClampUnit(Unit
                         - (getStandardDeviation(prices24h) * Unit) \div floor))

\* a score counted in ScoreUnit is a number within [0, 1]
ScoreInRange(x) == IsFinite(x) /\ 0 <= x.v /\ x.v <= ScoreUnit

\* the market-wide score of a response, from its indicators and the weights
\* 0.4, 0.3, 0.2, 0.1; in ScoreUnit
MwWeighted(ind) ==
    ind.total_volume_24h * 40 + ind.active_collections * 30
        + ind.total_sales_count * 20 + ind.market_activity_score * 10

\* C23 (as the claim states it): the weights of the five indicators are 0.25,
\* 0.25, 0.20, 0.15, 0.15 and sum to 1; the returned single-collection score
\* is their weighted sum (rounded) and lies in [0, 1] for every input; the
\* market-wide score is the sum weighted 0.4, 0.3, 0.2, 0.1 and lies in [0, 1].
C23_WeightedScoreInRange ==
    /\ weights = [floor_price_trend |-> 25, sales_volume_ratio |-> 25,
                  active_traders |-> 20, price_volatility |-> 15,
                  market_cap_change |-> 15]
    /\ phase = "computed" =>
           /\ ScoreInRange(result.sentiment_score)
           /\ \A n \in IndicatorNames : IsFinite(result.indicators[n])
           /\ result.sentiment_score =
                  JsRoundTo(Fin(result.indicators.floor_price_trend.v * 25
                                + result.indicators.sales_volume_ratio.v * 25
                                + result.indicators.active_traders.v * 20
                                + result.indicators.price_volatility.v * 15
                                + result.indicators.market_cap_change.v * 15), 2)
    /\ mwResp.kind = "data" =>
           /\ ScoreInRange(mwResp.sentiment_score)
           /\ mwResp.sentiment_score =
                  JsRoundTo(Fin(MwWeighted(mwResp.indicators)), 3)

\* m is v rounded to a multiple of q, a half rounded up
IsRounded(v, m, q) == m % q = 0 /\ 2 * m - q <= 2 * v /\ 2 * v < 2 * m + q

\* the weighted sum of the five indicators, in ScoreUnit
SingleWeighted(ind) ==
    ind.floor_price_trend.v * 25 + ind.sales_volume_ratio.v * 25
        + ind.active_traders.v * 20 + ind.price_volatility.v * 15
        + ind.market_cap_change.v * 15

\* the score of the refresh before rounding, in ScoreUnit:
\* Math.min(totalVolume24h / 10000, 1)
RfUnrounded(snapshot) ==
    Min(snapshot.indicators.total_volume_24h \div 100, ScoreUnit)

\* the returned scores are the sums rounded to multiples of qSingle, qMarket
\* and qRefresh (in ScoreUnit)
ScoresRoundedTo(qSingle, qMarket, qRefresh) ==
    /\ IF \A n \in IndicatorNames : IsFinite(result.single.indicators[n])
       THEN /\ IsFinite(result.single.sentiment_score)
            /\ IsRounded(SingleWeighted(result.single.indicators),
                         result.single.sentiment_score.v, qSingle)
       ELSE IsNaN(result.single.sentiment_score)
    /\ IsFinite(result.onDemand.sentiment_score)
    /\ IsRounded(MwWeighted(result.onDemand.indicators),
                 result.onDemand.sentiment_score.v, qMarket)
    /\ IsRounded(RfUnrounded(result.refresh),
                 result.refresh.sentiment_score * (ScoreUnit \div Unit), qRefresh)

\* C24 (as the claim states it): in every variant the returned
\* sentiment_score is the score rounded to two decimal places, halves away
\* from zero.
C24_RoundedToTwoDecimals ==
    phase = "scored" =>
        ScoresRoundedTo(ScoreUnit \div 100, ScoreUnit \div 100, ScoreUnit \div 100)

\* C24 as amended: the single-collection copies return the weighted sum
\* rounded to two decimal places (and NaN when the sum is NaN); the
\* market-wide handler and the refresh return their score rounded to three
\* decimal places; a half is rounded up, which for these non-negative scores
\* is away from zero.
C24_RoundedPerVariant ==
    phase = "scored" =>
        ScoresRoundedTo(ScoreUnit \div 100, ScoreUnit \div 1000, ScoreUnit \div 1000)

\* the same sales gave a single-collection score whose third decimal was
\* rounded away, and market-wide and refresh scores that keep a third decimal
C24_Witness ==
    /\ phase = "scored"
    /\ IsFinite(result.single.sentiment_score)
    /\ SingleWeighted(result.single.indicators) # result.single.sentiment_score.v
    /\ result.onDemand.sentiment_score.v % (ScoreUnit \div 100) # 0
    /\ result.refresh.sentiment_score % (Unit \div 100) # 0

-----------------------------------------------------------------------------
(* Claims about the image redirect, the secret of the refresh, the cache *)

\* C25 (as the claim states it): every response of the nft-image endpoint is
\* a 302 redirect whose Location is one of the four asset URLs.
C25_AlwaysAssetRedirect ==
    lastResp.route = "img" =>
        /\ lastResp.status = 302
        /\ lastResp.location \in {ASSET_URLS[st] : st \in States}

\* C26 (as the claim states it): the refresh fetches and writes only for a
\* request whose secret equals a configured CRON_SECRET; in an environment
\* without CRON_SECRET every request is answered 401, with no fetch and no
\* write.
C26_RefreshNeedsConfiguredSecret ==
    cronSecret = NoParam =>
        /\ rf.pc = "idle"
        /\ rfResp.status \in {0, 401}
        /\ store \in {Null, EarlierSnapshot, RecentSnapshot}

\* C27 (as the claim states it): a request whose upstream fetches all failed
\* writes no entry: where it found none, there is none after its answer.
C27_NoEntryFromFailedFetches ==
    (lastResp.upstream = "failed" /\ lastResp.age = Absent) =>
        cache[cacheKey(lastResp.contract)] = Null

\* the entry of key k is the one the request answered last has written, from
\* data the upstream gave later than hour t
EntryFromLaterData(k, t) ==
    /\ lastResp.fetches = 2 /\ lastResp.data # Null
    /\ cacheKey(lastResp.contract) = k
    /\ cache[k] # Null /\ cache[k].data = lastResp.data
    /\ t < cache[k].timestamp - lastResp.lag

\* C28 (as the claim states it): a request whose data the upstream gave
\* earlier than the data of the entry in the cache does not overwrite that
\* entry.
C28_OlderDataNeverOverwrites ==
    [][\A r \in AllSlots :
          (AnsweredWithResult(r) /\ lastResp.slot # r
               /\ EntryFromLaterData(cacheKey(req[r].contract), ReceivedAtHour(r)))
              => cache'[cacheKey(req[r].contract)] = cache[cacheKey(req[r].contract)]]_vars

\* the snapshot in the store is the one the run found when it began
StoreAsFound ==
    IF rf.found = Absent THEN store = Null
    ELSE store # Null /\ store.timestamp = now - rf.found

\* C29 (as the claim states it): a run in which the fetch of every collection
\* failed leaves the snapshot in the store as it found it, and so does a run
\* that is answered 500.
C29_FailedRoundKeepsSnapshot ==
    /\ (rf.pc = "idle" /\ rfResp.status = 200
            /\ rf.failed = DOMAIN TOP_COLLECTIONS) => StoreAsFound
    /\ (rf.pc = "idle" /\ rfResp.status = 500 /\ rf.found # NotChecked)
           => StoreAsFound

-----------------------------------------------------------------------------
(* Claims about the pagination of the refresh *)

\* C30: whatever page keys the upstream sends, the refresh issues at most 10
\* page requests for a collection (a further request is issued only after
\* fewer than 10 pages), so the requests of a round up to any collection are
\* at most 10 for each collection begun, and at most 70 in all.
C30_AtMostTenPagesEach ==
    /\ rf.pageCount <= maxPages
    /\ rf.pc = "fetch" =>
           /\ rf.pageCount < maxPages
           /\ rf.requests <= maxPages * (rf.idx - 1) + rf.pageCount
    /\ rf.requests <= maxPages * Len(TOP_COLLECTIONS)
    /\ \A i \in DOMAIN rf.collectionResults :
           rf.collectionResults[i].pages_fetched <= maxPages

\* the upstream sent a page key with every page of a collection: its tenth
\* page was fetched, the loop ended, and the round went on
C30_Witness ==
    /\ \E i \in DOMAIN rf.collectionResults :
           rf.collectionResults[i].pages_fetched = maxPages
    /\ rf.requests >= maxPages
    /\ rfResp.status = 200

-----------------------------------------------------------------------------
(* Claims about the 24-hour window of the refresh *)

RECURSIVE InWindowVolume(_, _)
\* the prices of all the sales of a page that are not older than the cutoff
\* and have a positive price
InWindowVolume(sales, cutoff) ==
    IF sales = <<>> THEN 0
    ELSE (IF Head(sales).blockTimestamp >= cutoff /\ RfPrice(Head(sales)) > 0
          THEN RfPrice(Head(sales)) ELSE 0)
         + InWindowVolume(Tail(sales), cutoff)

InWindowSales(sales, cutoff) ==
    Cardinality({i \in DOMAIN sales :
                    /\ sales[i].blockTimestamp >= cutoff
                    /\ RfPrice(sales[i]) > 0})

HasOlderSale(sales, cutoff) ==
    \E i \in DOMAIN sales : sales[i].blockTimestamp < cutoff

\* the page answered in this step ended the collection with an entry
CollectionPushed ==
    Len(rf'.collectionResults) = Len(rf.collectionResults) + 1

\* C31: every page the refresh receives adds to the volume and the sales
\* count of its collection exactly the sales of the page that are not older
\* than now - 24h and have a positive total price, and a page that holds a
\* sale older than the cutoff ends the paging of the collection.
C31_WindowCountsExactlyRecentPaidSales ==
    [][(rf'.requests = rf.requests + 1 /\ rf'.lastPage.ok) =>
          LET page == rf'.lastPage.sales
              volumeAfter ==
                  IF CollectionPushed
                  THEN rf'.collectionResults[Len(rf'.collectionResults)].volume_24h
                  ELSE rf'.collectionVolume
              salesAfter ==
                  IF CollectionPushed
                  THEN rf'.collectionResults[Len(rf'.collectionResults)].sales_24h
                  ELSE rf'.collectionSales
          IN  /\ volumeAfter
                    = rf.collectionVolume + InWindowVolume(page, now - 24)
              /\ salesAfter = rf.collectionSales + InWindowSales(page, now - 24)
              /\ HasOlderSale(page, now - 24) =>
                     /\ CollectionPushed
                     /\ rf'.pc = "put" \/ rf'.idx = rf.idx + 1]_vars

\* a collection was paged over a sale at the cutoff and a sale without a
\* price, and ended at a page with older sales: it counts 3 sales of 5 + 7 + 2
C31_Witness ==
    /\ rf.lastPage.ok /\ HasOlderSale(rf.lastPage.sales, now - 24)
    /\ Len(rf.collectionResults) >= 1
    /\ rf.collectionResults[1].pages_fetched = 3
    /\ rf.collectionResults[1].sales_24h = 3
    /\ rf.collectionResults[1].volume_24h = 14 * Unit

-----------------------------------------------------------------------------
(* Claims about the totals of a snapshot *)

\* the totals of a snapshot are those of the collections it lists
TotalsMatchBreakdown(snapshot) ==
    /\ snapshot.raw_data.total_volume_eth
           = SumField(snapshot.raw_data.collection_breakdown, "volume_24h")
    /\ snapshot.indicators.total_volume_24h
           = SumField(snapshot.raw_data.collection_breakdown, "volume_24h")
    /\ snapshot.raw_data.total_sales
           = SumField(snapshot.raw_data.collection_breakdown, "sales_24h")
    /\ snapshot.indicators.total_sales_24h
           = SumField(snapshot.raw_data.collection_breakdown, "sales_24h")

\* C32: in every snapshot the refresh writes, and at every point of the loop
\* that builds it, the total volume is the sum of the volumes of the
\* collections listed in collection_breakdown and the total of sales the sum
\* of their sales_24h, whichever page requests failed.
C32_TotalsAreSumOfBreakdown ==
    /\ rf.totalVolume24h = SumField(rf.collectionResults, "volume_24h")
    /\ rf.totalSales24h = SumField(rf.collectionResults, "sales_24h")
    /\ store # Null => TotalsMatchBreakdown(store)

\* a snapshot was written after the first collection was lost to an
\* exception at its second or a later page, and another collection had sales
C32_Witness ==
    /\ store # Null /\ rfResp.status = 200
    /\ 1 \in rf.failed
    /\ rf.requests > Len(rf.collectionResults) + Cardinality(rf.failed)
    /\ store.raw_data.collection_breakdown # <<>>
    /\ store.raw_data.collection_breakdown[1].contract # TOP_COLLECTIONS[1]
    /\ store.raw_data.total_sales > 0

-----------------------------------------------------------------------------
(* Claims about the collections counted as active *)

\* the count lies between 0 and the number of collections asked for, less
\* those whose fetch failed
ActiveWithin(active, requested, failedFetches) ==
    /\ 0 <= active
    /\ active <= requested
    /\ active <= requested - Cardinality(failedFetches)

\* C33: the number of active collections of a market-wide result lies between
\* 0 and the 7 collections asked for, and a collection whose fetch failed is
\* not among those counted, in the on-demand handler and in the refresh.
C33_FailedNeverCountedActive ==
    /\ mwResp.kind = "data" =>
           ActiveWithin(mwResp.raw_data.active_collections,
                        Len(collections), mw.failed)
    /\ rfResp.status = 200 =>
           ActiveWithin(store.indicators.active_collections,
                        Len(TOP_COLLECTIONS), rf.failed)

-----------------------------------------------------------------------------
(* Claims about the market state of the market-wide variants *)

\* the state the table of ETH volumes assigns to a volume counted in Unit
TableVolumeState(v) ==
    CASE v < 2000 * Unit -> "capitulation"
      [] 2000 * Unit <= v /\ v < 4000 * Unit -> "stagnation"
      [] 4000 * Unit <= v /\ v < 7000 * Unit -> "resilience"
      [] v >= 7000 * Unit -> "euphoria"

\* C34: the market state of the on-demand market-wide handler and that of the
\* refresh are each the state the table 2000 / 4000 / 7000 assigns to the
\* total volume the handler has summed, so the two classify a total alike.
C34_StateByVolumeTable ==
    phase = "summed" =>
        /\ result.onDemand.market_state = TableVolumeState(result.onDemand.volume)
        /\ result.refresh.market_state = TableVolumeState(result.refresh.volume)
        /\ result.onDemand.volume = result.refresh.volume =>
               result.onDemand.market_state = result.refresh.market_state

\* the total of the refresh is exactly 2000 + 2000 and that of the on-demand
\* handler lies below 2000
C34_Witness ==
    /\ phase = "summed"
    /\ result.refresh.volume = 4000 * Unit
    /\ result.refresh.market_state = "resilience"
    /\ result.onDemand.volume > 0
    /\ result.onDemand.market_state = "capitulation"

-----------------------------------------------------------------------------
(* Claims about what a request leaves untouched *)

\* the step ends a /api/market-sentiment request whose bodies were read
\* and whose result the schema rejected
SchemaRejected ==
    /\ req[1].pc = "await" /\ req[1].route = "ms"
    /\ req'[1].pc = "idle"
    /\ lastResp'.upstream # "threw"
    /\ lastResp'.status # 200

\* C35: when the result computed for a /api/market-sentiment request fails
\* the schema, the request is answered with an error (status 500, no data)
\* and the cache is left as it was, for every key.
C35_SchemaFailureLeavesCache ==
    [][SchemaRejected =>
          /\ lastResp'.status = 500 /\ lastResp'.kind = "error"
          /\ lastResp'.data = Null
          /\ cache' = cache]_vars

\* a result was rejected by the schema while the key had an entry, left by
\* an earlier request and no longer fresh: the entry is still there
C35_Witness ==
    /\ lastResp.route = "ms" /\ lastResp.status = 500
    /\ lastResp.fetches = 2 /\ lastResp.upstream = "data"
    /\ lastResp.contract \in Contracts
    /\ cache[lastResp.contract] # Null
    /\ ~CacheFresh(cache[lastResp.contract], now)

\* C36: a GET /api/nft-image whose force parameter names one of the four
\* states is redirected to the asset URL of that state, without a look at
\* the cache, a write to it or an upstream call, whether or not the API key
\* is set and whatever the cache holds for the contract.
C36_OverrideTouchesNothing ==
    [][\A c \in ContractParams : \A f \in States :
          NftImageStart(1, c, f) =>
              /\ lastResp'.status = 302
              /\ lastResp'.location = ASSET_URLS[f]
              /\ ~lastResp'.fromCache /\ lastResp'.age = NotChecked
              /\ lastResp'.fetches = 0 /\ lastResp'.upstream = "none"
              /\ cache' = cache
              /\ req' = req]_vars

\* an override was answered while the cache held a fresh entry of another
\* state for the contract
C36_Witness ==
    /\ lastResp.route = "img" /\ lastResp.status = 302
    /\ lastResp.fetches = 0 /\ ~lastResp.fromCache
    /\ lastResp.age = NotChecked
    /\ CacheFresh(cache[lastResp.contract], now)
    /\ lastResp.location = ASSET_URLS.euphoria
    /\ cache[lastResp.contract].data.market_state # "euphoria"

\* C37: a /api/market-sentiment request without a contract parameter is
\* answered 400, starts no upstream fetch and leaves the cache as it was,
\* whether or not the API key is set.
C37_MissingContractIs400 ==
    [][MarketSentimentStart(1, NoParam) =>
          /\ lastResp'.status = 400
          /\ lastResp'.fetches = 0
          /\ req' = req
          /\ cache' = cache]_vars

====
